---- MODULE Spec2Model ----
(***************************************************************************)
(* TalentScout hiring assistant: the conversation state machine of         *)
(* app.py (one Streamlit script run per user action), the question         *)
(* generator, the answer scorer and the record store.                      *)
(*                                                                         *)
(* Text is a sequence of strings: what a user types is held one character  *)
(* per string, so that strip, lower, split, substring search and the       *)
(* validators' patterns are computed as the code computes them; a fixed    *)
(* text of the program is held as one string.  An optional value is <<>>   *)
(* (None) or <<v>>.  A dict is a sequence of <<key, value>> pairs in       *)
(* insertion order.  A float is a fraction [n, d]; the overall score is    *)
(* held in tenths.  The emoji that decorate the program's messages are    *)
(* left out of the fixed texts.                                            *)
(***************************************************************************)
EXTENDS Integers, Sequences, FiniteSets, TLC

\* ---------------------------------------------------------------- bounds
\* steps off the reference run in one behaviour: a message that does not
\* move the flow forward (a rejected input, a follow-up comment, a message
\* after END), an accepted input other than the step's reference input, a
\* service reply other than the well-formed one, a write of the record that
\* fails, a reset
MaxDeviations == 1
\* calls of next_step made in one behaviour of its own specification
MaxCalls == 2
\* clicks on the save and reset buttons in one behaviour
MaxClicks == 2
\* messages and clicks of two interleaved sessions in one behaviour
MaxTabTurns == 14
\* characters of an answer handed to simple_score_answer on its own
MaxAnswerChars == 151
\* entries of a mapping handed to calculate_overall_score on its own
MaxScores == 4

\* ------------------------------------------- values fixed by the program
\* k of generate_questions_sync(..., k=5)
K == 5
\* stop_after_attempt(3)
MaxAttempts == 3
\* len(text.strip()) < 10
MinAnswerLen == 10

\* ---------------------------------------------------------------- text
None == <<>>
Some(v) == <<v>>
IsNone(o) == Len(o) = 0
Val(o) == o[1]

WS == {" ", "\t", "\n"}
DIGITS == {"0","1","2","3","4","5","6","7","8","9"}
UPPER == <<"A","B","C","D","E","F","G","H","I","J","K","L","M","N","O","P","Q","R","S","T","U","V","W","X","Y","Z">>
LOWER == <<"a","b","c","d","e","f","g","h","i","j","k","l","m","n","o","p","q","r","s","t","u","v","w","x","y","z">>

\* the lowercase letter of each uppercase letter
LowerOf == [c \in {UPPER[i] : i \in 1..26} |-> LOWER[CHOOSE i \in 1..26 : UPPER[i] = c]]

LowerChar(c) == IF c \in DOMAIN LowerOf THEN LowerOf[c] ELSE c

\* str.lower()
lower(s) == <<>> \o [i \in 1..Len(s) |-> LowerChar(s[i])]

RECURSIVE lstripc(_, _)
lstripc(s, cs) ==
  IF Len(s) > 0 /\ s[1] \in cs THEN lstripc(SubSeq(s, 2, Len(s)), cs) ELSE s

RECURSIVE rstripc(_, _)
rstripc(s, cs) ==
  IF Len(s) > 0 /\ s[Len(s)] \in cs THEN rstripc(SubSeq(s, 1, Len(s) - 1), cs) ELSE s

\* str.strip(chars)
stripc(s, cs) == rstripc(lstripc(s, cs), cs)

\* str.strip()
strip(s) == stripc(s, WS)

\* needle in s
contains(s, needle) ==
  LET n == Len(needle)
  IN  IF n = 0 THEN TRUE
      ELSE \E i \in 1..(Len(s) - n + 1) :
             s[i] = needle[1] /\ \A j \in 2..n : s[i + j - 1] = needle[j]

startswith(s, p) == Len(s) >= Len(p) /\ SubSeq(s, 1, Len(p)) = p
endswith(s, p) == Len(s) >= Len(p) /\ SubSeq(s, Len(s) - Len(p) + 1, Len(s)) = p

\* str.split(sep)
RECURSIVE split(_, _)
split(s, sep) ==
  IF \A i \in 1..Len(s) : s[i] # sep
  THEN <<s>>
  ELSE LET i == CHOOSE i \in 1..Len(s) : s[i] = sep /\ \A j \in 1..(i - 1) : s[j] # sep
       IN  <<SubSeq(s, 1, i - 1)>> \o split(SubSeq(s, i + 1, Len(s)), sep)

\* [s.strip() for s in xs if s.strip()]
RECURSIVE tokens(_)
tokens(xs) ==
  IF Len(xs) = 0 THEN <<>>
  ELSE (IF Len(strip(xs[1])) > 0 THEN <<strip(xs[1])>> ELSE <<>>)
       \o tokens(SubSeq(xs, 2, Len(xs)))

\* join of a list of texts with a separator text
RECURSIVE join(_, _)
join(xs, sep) ==
  IF Len(xs) = 0 THEN <<>>
  ELSE IF Len(xs) = 1 THEN xs[1]
  ELSE xs[1] \o sep \o join(SubSeq(xs, 2, Len(xs)), sep)

\* str(n) of an integer n: its decimal numeral, as text
RECURSIVE numeral(_)
numeral(n) ==
  LET ds == <<"0","1","2","3","4","5","6","7","8","9">>
  IN  IF n < 0 THEN <<"-">> \o numeral(0 - n)
      ELSE IF n < 10 THEN <<ds[n + 1]>>
      ELSE numeral(n \div 10) \o <<ds[(n % 10) + 1]>>

\* ------------------------------------------------------- core/state.py
EXIT_KEYWORDS ==
  { <<"q","u","i","t">>, <<"e","x","i","t">>, <<"b","y","e">>, <<"s","t","o","p">>, <<"g","o","o","d","b","y","e">>, <<"e","n","d">>, <<"f","i","n","i","s","h">>, <<"d","o","n","e">> }

INTAKE_ORDER ==
  << "INTAKE_NAME", "INTAKE_EMAIL", "INTAKE_PHONE", "INTAKE_YOE",
     "INTAKE_POSITION", "INTAKE_LOCATION", "INTAKE_TECH" >>

detect_exit(text) ==
  IF Len(text) = 0 THEN FALSE
  ELSE LET t == lower(strip(text))
       IN  IF t \in EXIT_KEYWORDS THEN TRUE
           ELSE \E keyword \in EXIT_KEYWORDS : contains(t, keyword)

field_mapping(step) ==
  CASE step = "INTAKE_NAME" -> "full_name"
    [] step = "INTAKE_EMAIL" -> "email"
    [] step = "INTAKE_PHONE" -> "phone"
    [] step = "INTAKE_YOE" -> "years_experience"
    [] step = "INTAKE_POSITION" -> "desired_positions"
    [] step = "INTAKE_LOCATION" -> "current_location"
    [] step = "INTAKE_TECH" -> "tech_stack"

\* a scan that takes every falsy value for unset: "not val"
FieldIsFalsy(c, field) ==
  CASE field \in {"full_name", "email", "phone", "current_location"} ->
         IsNone(c[field]) \/ Len(strip(Val(c[field]))) = 0
    [] field = "years_experience" -> IsNone(c[field]) \/ Val(c[field]).n = 0
    [] field \in {"desired_positions", "tech_stack"} -> Len(c[field]) = 0

\* val is None or (isinstance(val, list) and not val) or (isinstance(val, str) and not val.strip())
FieldIsEmpty(c, field) ==
  CASE field \in {"full_name", "email", "phone", "current_location"} ->
         IsNone(c[field]) \/ Len(strip(Val(c[field]))) = 0
    [] field = "years_experience" -> IsNone(c[field])
    [] field \in {"desired_positions", "tech_stack"} -> Len(c[field]) = 0

\* a scan that stops before the last field of INTAKE_ORDER
RECURSIVE next_step_scan_short(_, _)
next_step_scan_short(c, i) ==
  IF i > Len(INTAKE_ORDER) - 1 THEN "GENERATE_QA"
  ELSE IF FieldIsEmpty(c, field_mapping(INTAKE_ORDER[i])) THEN INTAKE_ORDER[i]
  ELSE next_step_scan_short(c, i + 1)

\* the loop over INTAKE_ORDER from position i
RECURSIVE next_step_scan(_, _)
next_step_scan(c, i) ==
  IF i > Len(INTAKE_ORDER) THEN "GENERATE_QA"
  ELSE IF FieldIsEmpty(c, field_mapping(INTAKE_ORDER[i])) THEN INTAKE_ORDER[i]
  ELSE next_step_scan(c, i + 1)

\* a next_step that also writes the step it returns into the state
next_step_sets_step(c, s) ==
  [ ret |-> IF ~c.consent_given THEN "CONSENT" ELSE next_step_scan(c, 1),
    candidate |-> c,
    state |-> [s EXCEPT !.step = IF ~c.consent_given THEN "CONSENT" ELSE next_step_scan(c, 1)] ]

\* next_step(candidate, state): the returned step, and the two arguments as
\* the call leaves them
next_step(c, s) ==
  [ ret |-> IF ~c.consent_given THEN "CONSENT" ELSE next_step_scan(c, 1),
    candidate |-> c,
    state |-> s ]

\* ----------------------------------------------------- core/schemas.py
\* Candidate()
NewCandidate ==
  [ full_name |-> None, email |-> None, phone |-> None,
    years_experience |-> None, desired_positions |-> <<>>,
    current_location |-> None, tech_stack |-> <<>>, consent_given |-> FALSE,
    technical_questions |-> <<>>, technical_answers |-> <<>>,
    answer_scores |-> <<>>, overall_score |-> None,
    additional_comments |-> None ]

\* ConversationState(step = st)
NewConversationState(st) ==
  [ step |-> st, exit_detected |-> FALSE, current_question_index |-> 0,
    questions_asked |-> FALSE ]

DIFFICULTIES == {"easy", "medium", "hard"}

\* QAQuestion(topic, question, difficulty, question_id): the text fields are
\* texts, difficulty one of the Literal's values, question_id optional
QAQuestion(topic, question, difficulty, qid) ==
  [ topic |-> topic, question |-> question, difficulty |-> difficulty,
    question_id |-> qid ]

\* AnswerScore(score, reasoning, strengths, improvements)
AnswerScore(score, reasoning, strengths, improvements) ==
  [ score |-> score, reasoning |-> reasoning, strengths |-> strengths,
    improvements |-> improvements ]

\* an assignment that forgets the other keys
DictSetOnly(d, key, value) == << <<key, value>> >>

\* dict[key] = value, keeping insertion order
DictSet(d, key, value) ==
  IF \E i \in 1..Len(d) : d[i][1] = key
  THEN <<>> \o [i \in 1..Len(d) |-> IF d[i][1] = key THEN <<key, value>> ELSE d[i]]
  ELSE Append(d, <<key, value>>)

\* -------------------------------------------------- ui/components.py
\* append_message(role, content) on history h: a message equal to the last
\* one is dropped
append_message(h, role, content) ==
  IF Len(h) > 0 /\ h[Len(h)].role = role /\ h[Len(h)].content = content
  THEN h
  ELSE Append(h, [role |-> role, content |-> content])

\* -------------------------------------------------------------- app.py
bot_say(h, content) == append_message(h, "assistant", content)
user_say(h, text) == append_message(h, "user", text)

\* several bot_say calls in a row
RECURSIVE bot_say_all(_, _)
bot_say_all(h, contents) ==
  IF Len(contents) = 0 THEN h
  ELSE bot_say_all(bot_say(h, contents[1]), SubSeq(contents, 2, Len(contents)))

INTAKE_STEPS ==
  << "CONSENT", "INTAKE_NAME", "INTAKE_EMAIL", "INTAKE_PHONE", "INTAKE_YOE",
     "INTAKE_POSITION", "INTAKE_LOCATION", "INTAKE_TECH" >>

InIntakeSteps(st) == \E i \in 1..Len(INTAKE_STEPS) : INTAKE_STEPS[i] = st

\* QUESTIONS.get(step, ""): a static text is one chunk
get_next_question(st) ==
  CASE st = "CONSENT" -> <<"Before proceeding, please confirm consent ... Reply 'I agree' to continue.">>
    [] st = "INTAKE_NAME" -> <<"What's your full name?">>
    [] st = "INTAKE_EMAIL" -> <<"What's your email address?">>
    [] st = "INTAKE_PHONE" -> <<"What's your phone number?">>
    [] st = "INTAKE_YOE" -> <<"How many years of professional experience do you have?">>
    [] st = "INTAKE_POSITION" -> <<"What position(s) are you interested in? (comma-separated if multiple)">>
    [] st = "INTAKE_LOCATION" -> <<"What's your current location?">>
    [] st = "INTAKE_TECH" -> <<"What are your main technical skills/technologies? (comma-separated)">>
    [] OTHER -> <<>>

\* the fixed messages app.py says (the guidance messages of
\* apply_answer_to_step first), by the model's name for each
APP_TEXT ==
  [ GUIDE_CONSENT |->
      <<"For compliance, please reply 'I agree', 'yes', or 'accept' to proceed, or 'exit' to stop.">>,
    GUIDE_NAME |->
      <<"Please provide your full name (at least 2 characters).">>,
    GUIDE_EMAIL |->
      <<"That doesn't look like a valid email address. Please check punctuation and try again (e.g., name@example.com).">>,
    GUIDE_PHONE |->
      <<"Please provide a valid phone number with country code if possible (e.g., +1234567890 or 1234567890).">>,
    GUIDE_YOE_RANGE |->
      <<"Years of experience should be between 0 and 50 (e.g., 3.5).">>,
    GUIDE_YOE_NUMBER |->
      <<"Please provide years of experience as a number (e.g., 3.5).">>,
    GUIDE_POSITION |->
      <<"Please provide the position(s) you're interested in.">>,
    GUIDE_LOCATION |->
      <<"Please provide your current location.">>,
    GUIDE_TECH |->
      <<"Please provide your technical skills/technologies (comma-separated).">>,
    DEBUGGING |->
      <<"Describe your approach to debugging complex technical issues.">>,
    GUIDE_DETAIL |->
      <<"Please provide a more detailed answer (at least 10 characters).">>,
    UNAVAILABLE |->
      <<"AI scoring temporarily unavailable - using basic assessment.">>,
    ADD_COMMENTS |->
      <<"Feel free to add any additional comments about your experience, projects, or career goals, or type 'exit' to finish.">>,
    COMPLETE |->
      <<"**Technical Assessment Complete!**">>,
    PREPARING |->
      <<"Perfect! Let me prepare some tailored technical questions with AI scoring for you...">>,
    HERE_ARE |->
      <<"Great! Here are your personalized technical questions. Each answer will be scored by AI from 0-10:">>,
    LETS_BEGIN |->
      <<"**Let's begin!** Please answer each question thoroughly. The AI will provide immediate feedback and scoring.">>,
    TROUBLE |->
      <<"Having trouble generating custom questions. Let's proceed with the standard process.">>,
    THANK_YOU |->
      <<"Thank you for completing the TalentScout assessment! Your information and technical responses have been recorded.">>,
    NEXT_STEPS |->
      <<"**Next steps:** Your profile will be reviewed and you'll be contacted if there's a good fit.">>,
    RESULTS |->
      <<"## **Technical Assessment Results**">>,
    BREAKDOWN |->
      <<"**Question-by-Question Breakdown:**">>,
    MORE_COMMENTS |->
      <<"Thank you for the additional information! Feel free to add more comments or type 'exit' when ready to finish.">>,
    SAVED |->
      <<"Your complete assessment including AI scores and feedback has been saved!">>,
    SAVE_ERROR |->
      <<"Error saving assessment. Please try again.">>,
    WENT_WRONG |->
      <<"Sorry, something went wrong while processing that. Please try again.">>,
    GREETING |->
      <<"Hello! This assistant will collect essential details for initial screening ... Reply **'I agree'** to continue.">> ]
GUIDE_EMAIL_MEANT(suggestion) ==
  <<"That looks almost like an email. Did you mean: ">> \o suggestion
    \o <<"? Please check for correct spelling and domain (e.g., name@example.com).">>

GUIDANCE ==
  { APP_TEXT.GUIDE_CONSENT, APP_TEXT.GUIDE_NAME, APP_TEXT.GUIDE_EMAIL, APP_TEXT.GUIDE_PHONE, APP_TEXT.GUIDE_YOE_RANGE,
    APP_TEXT.GUIDE_YOE_NUMBER, APP_TEXT.GUIDE_POSITION, APP_TEXT.GUIDE_LOCATION, APP_TEXT.GUIDE_TECH }

\* EMAIL_RX = ^[^@\s]+@[^@\s]+\.[^@\s]+$ matched from the start of s; $ also
\* matches before one trailing newline
EmailChar(ch) == ch # "@" /\ ch \notin WS
EmailFull(s) ==
  \E a \in 2..Len(s) :
    /\ s[a] = "@"
    /\ \A i \in 1..(a - 1) : EmailChar(s[i])
    /\ \A i \in (a + 1)..Len(s) : EmailChar(s[i])
    /\ \E d \in (a + 2)..(Len(s) - 1) : s[d] = "."
EMAIL_RX_match(s) ==
  \/ EmailFull(s)
  \/ Len(s) > 0 /\ s[Len(s)] = "\n" /\ EmailFull(SubSeq(s, 1, Len(s) - 1))

\* re.sub(r'[^\d+]', '', val)
RECURSIVE keep_digits_plus(_)
keep_digits_plus(s) ==
  IF Len(s) = 0 THEN <<>>
  ELSE (IF s[1] \in DIGITS \/ s[1] = "+" THEN <<s[1]>> ELSE <<>>)
       \o keep_digits_plus(SubSeq(s, 2, Len(s)))

isdigit(s) == Len(s) > 0 /\ \A i \in 1..Len(s) : s[i] \in DIGITS

\* val.replace(',', '.')
RECURSIVE replace_comma(_)
replace_comma(s) ==
  IF Len(s) = 0 THEN <<>>
  ELSE <<IF s[1] = "," THEN "." ELSE s[1]>> \o replace_comma(SubSeq(s, 2, Len(s)))

DigitVal(ch) == CHOOSE n \in 0..9 : numeral(n) = <<ch>>

RECURSIVE DigitsVal(_)
DigitsVal(s) ==
  IF Len(s) = 0 THEN 0 ELSE 10 * DigitsVal(SubSeq(s, 1, Len(s) - 1)) + DigitVal(s[Len(s)])

RECURSIVE Pow10(_)
Pow10(n) == IF n = 0 THEN 1 ELSE 10 * Pow10(n - 1)

\* float(s) for a plain decimal numeral: [sign] digits [. digits], at least
\* one digit; the value is n / d.  Anything else is a ValueError (None).
parse_decimal(s) ==
  LET signed == Len(s) > 0 /\ s[1] \in {"+", "-"}
      body == IF signed THEN SubSeq(s, 2, Len(s)) ELSE s
      dots == {i \in 1..Len(body) : body[i] = "."}
      wellformed ==
        /\ \A i \in 1..Len(body) : body[i] \in DIGITS \/ body[i] = "."
        /\ Cardinality(dots) <= 1
        /\ \E i \in 1..Len(body) : body[i] \in DIGITS
      dot == IF dots = {} THEN Len(body) + 1 ELSE CHOOSE i \in dots : TRUE
      int == SubSeq(body, 1, dot - 1)
      frac == rstripc(SubSeq(body, dot + 1, Len(body)), {"0"})
      mag == DigitsVal(int \o frac)
  IN  IF ~wellformed THEN None
      ELSE Some([n |-> IF signed /\ s[1] = "-" THEN 0 - mag ELSE mag,
                 d |-> Pow10(Len(frac))])

parse_float(s0) == parse_decimal(strip(s0))

CONSENT_WORDS ==
  << <<"a","g","r","e","e">>, <<"y","e","s">>, <<"o","k">>, <<"p","r","o","c","e","e","d">>, <<"a","c","c","e","p","t">>, <<"c","o","n","f","i","r","m">> >>

\* the result of apply_answer_to_step: the returned flag, and the candidate
\* and the history as the call leaves them
Applied(ok, c, h) == [ok |-> ok, candidate |-> c, history |-> h]

apply_consent(val, c, h) ==
  IF \E i \in 1..Len(CONSENT_WORDS) : contains(lower(val), CONSENT_WORDS[i])
  THEN Applied(TRUE, [c EXCEPT !.consent_given = TRUE], h)
  ELSE Applied(FALSE, c, bot_say(h, APP_TEXT.GUIDE_CONSENT))

apply_name(val, c, h) ==
  IF Len(val) > 0 /\ Len(strip(val)) >= 2
  THEN Applied(TRUE, [c EXCEPT !.full_name = Some(strip(val))], h)
  ELSE Applied(FALSE, c, bot_say(h, APP_TEXT.GUIDE_NAME))

\* an email step that commits the suggestion it makes
apply_email_input_commits(candidate_input, c, h) ==
  LET suggestion ==
        IF endswith(candidate_input, <<".">>)
        THEN rstripc(candidate_input, {"."}) \o <<".","c","o","m">>
        ELSE candidate_input
  IN  IF EMAIL_RX_match(candidate_input)
      THEN Applied(TRUE, [c EXCEPT !.email = Some(candidate_input)], h)
      ELSE IF contains(candidate_input, <<"@">>)
      THEN Applied(FALSE, [c EXCEPT !.email = Some(suggestion)],
                   bot_say(h, GUIDE_EMAIL_MEANT(suggestion)))
      ELSE Applied(FALSE, c, bot_say(h, APP_TEXT.GUIDE_EMAIL))

\* the INTAKE_EMAIL branch, with candidate_input = val.strip().strip(",. ").lower()
apply_email_input(candidate_input, c, h) ==
  LET suggestion ==
        IF endswith(candidate_input, <<".">>)
        THEN rstripc(candidate_input, {"."}) \o <<".","c","o","m">>
        ELSE candidate_input
  IN  IF EMAIL_RX_match(candidate_input)
      THEN Applied(TRUE, [c EXCEPT !.email = Some(candidate_input)], h)
      ELSE IF contains(candidate_input, <<"@">>) /\ ~EMAIL_RX_match(candidate_input)
      THEN Applied(FALSE, c, bot_say(h, GUIDE_EMAIL_MEANT(suggestion)))
      ELSE Applied(FALSE, c, bot_say(h, APP_TEXT.GUIDE_EMAIL))

apply_email(val, c, h) ==
  apply_email_input(lower(stripc(strip(val), {",", ".", " "})), c, h)

apply_phone(val, c, h) ==
  LET cleaned_phone == keep_digits_plus(val)
  IN  IF Len(cleaned_phone) >= 6
         /\ (startswith(cleaned_phone, <<"+">>) \/ isdigit(cleaned_phone))
      THEN Applied(TRUE, [c EXCEPT !.phone = Some(cleaned_phone)], h)
      ELSE Applied(FALSE, c, bot_say(h, APP_TEXT.GUIDE_PHONE))

\* an INTAKE_YOE branch whose range leaves out both ends
apply_years_open_range(years, c, h) ==
      IF IsNone(years) THEN Applied(FALSE, c, bot_say(h, APP_TEXT.GUIDE_YOE_NUMBER))
      ELSE IF 0 < Val(years).n /\ Val(years).n < 50 * Val(years).d
      THEN Applied(TRUE, [c EXCEPT !.years_experience = years], h)
      ELSE Applied(FALSE, c, bot_say(h, APP_TEXT.GUIDE_YOE_RANGE))

\* the INTAKE_YOE branch, with years = float(val.replace(',', '.')), None
\* for a ValueError
apply_years(years, c, h) ==
      IF IsNone(years) THEN Applied(FALSE, c, bot_say(h, APP_TEXT.GUIDE_YOE_NUMBER))
      ELSE IF 0 <= Val(years).n /\ Val(years).n <= 50 * Val(years).d
      THEN Applied(TRUE, [c EXCEPT !.years_experience = years], h)
      ELSE Applied(FALSE, c, bot_say(h, APP_TEXT.GUIDE_YOE_RANGE))

apply_yoe(val, c, h) == apply_years(parse_float(replace_comma(val)), c, h)

apply_position(val, c, h) ==
  IF Len(val) > 0 /\ Len(strip(val)) >= 2
  THEN Applied(TRUE, [c EXCEPT !.desired_positions = tokens(split(val, ","))], h)
  ELSE Applied(FALSE, c, bot_say(h, APP_TEXT.GUIDE_POSITION))

apply_location(val, c, h) ==
  IF Len(val) > 0 /\ Len(strip(val)) >= 2
  THEN Applied(TRUE, [c EXCEPT !.current_location = Some(strip(val))], h)
  ELSE Applied(FALSE, c, bot_say(h, APP_TEXT.GUIDE_LOCATION))

apply_tech(val, c, h) ==
  IF Len(val) > 0 /\ Len(strip(val)) >= 2
  THEN Applied(TRUE, [c EXCEPT !.tech_stack = tokens(split(val, ","))], h)
  ELSE Applied(FALSE, c, bot_say(h, APP_TEXT.GUIDE_TECH))

\* apply_answer_to_step(step, text) on candidate c and history h
apply_value_to_step(st, val, c, h) ==
      CASE st = "CONSENT" -> apply_consent(val, c, h)
        [] st = "INTAKE_NAME" -> apply_name(val, c, h)
        [] st = "INTAKE_EMAIL" -> apply_email(val, c, h)
        [] st = "INTAKE_PHONE" -> apply_phone(val, c, h)
        [] st = "INTAKE_YOE" -> apply_yoe(val, c, h)
        [] st = "INTAKE_POSITION" -> apply_position(val, c, h)
        [] st = "INTAKE_LOCATION" -> apply_location(val, c, h)
        [] st = "INTAKE_TECH" -> apply_tech(val, c, h)
        [] OTHER -> Applied(FALSE, c, h)

apply_answer_to_step(st, text, c, h) == apply_value_to_step(st, strip(text), c, h)

\* ---------------------------------------------------------- core/nlp.py
\* What one call of ollama_chat gives back: an exception (connection error,
\* timeout, HTTP error status), or a text.  A text is described by what
\* json.loads makes of it (direct), by whether it holds a '{' before a '}'
\* (braces), and by what json.loads makes of that slice (inner).
Parsed(ok, data) == [ok |-> ok, data |-> data]
Reply(raises, direct, braces, inner) ==
  [raises |-> raises, direct |-> direct, braces |-> braces, inner |-> inner]

\* ------------------------------------------------- core/qa_generator.py
\* JSON data of a generator reply: a dict or not, and its "items" when that
\* is a list.  An item is a dict or not, with its optional keys.
GenData(isdict, items) == [isdict |-> isdict, items |-> items]
GenItem(isdict, topic, question, difficulty, qid) ==
  [ isdict |-> isdict, topic |-> topic, question |-> question,
    difficulty |-> difficulty, question_id |-> qid ]
NoGenData == GenData(FALSE, None)

\* _best_effort_json(raw): the data, or None
best_effort_json(raw) ==
  IF raw.direct.ok THEN Some(raw.direct.data)
  ELSE IF raw.braces
       THEN (IF raw.inner.ok THEN Some(raw.inner.data) ELSE None)
       ELSE None

\* QAQuestion(**it) raises ValidationError
ItemInvalid(it) ==
  \/ IsNone(it.topic)
  \/ IsNone(it.question)
  \/ ~IsNone(it.difficulty) /\ Val(it.difficulty) \notin DIFFICULTIES

\* QAQuestion(**it)
ItemQuestion(it) ==
  QAQuestion(Val(it.topic), Val(it.question),
             IF IsNone(it.difficulty) THEN "medium" ELSE Val(it.difficulty),
             it.question_id)

\* the loop over data["items"]: invalid items are skipped
RECURSIVE valid_items(_)
valid_items(its) ==
  IF Len(its) = 0 THEN <<>>
  ELSE (IF ItemInvalid(its[1]) THEN <<>> ELSE <<ItemQuestion(its[1])>>)
       \o valid_items(SubSeq(its, 2, Len(its)))

CORE_PRINCIPLES(t) == <<"Briefly explain core principles of ">> \o t \o <<".">>
GENERAL_SE == <<"general software engineering">>

\* _fallback_items(stack, k)
fallback_items(stack, k) ==
  LET base == IF Len(stack) = 0 THEN <<GENERAL_SE>> ELSE stack
      n == IF Len(base) < k THEN Len(base) ELSE k
  IN  <<>> \o [i \in 1..n |-> QAQuestion(base[i], CORE_PRINCIPLES(base[i]), "medium", None)]

\* list[:k]
take(xs, k) == SubSeq(xs, 1, IF Len(xs) < k THEN Len(xs) ELSE k)

Attempt(raised, items) == [raised |-> raised, items |-> items]

\* the body of generate_stack_questions, one attempt with reply raw: it
\* raises when the call raises, or when an item is not a mapping (TypeError)
generate_stack_questions_once(stack0, k, raw) ==
  LET stack == tokens(stack0)
      data == IF raw.raises THEN None ELSE best_effort_json(raw)
      its == IF ~IsNone(data) /\ Val(data).isdict /\ ~IsNone(Val(data).items)
             THEN Val(Val(data).items) ELSE <<>>
      items == valid_items(its)
  IN  IF raw.raises THEN Attempt(TRUE, <<>>)
      ELSE IF \E i \in 1..Len(its) : ~its[i].isdict THEN Attempt(TRUE, <<>>)
      ELSE Attempt(FALSE, take(IF Len(items) = 0 THEN fallback_items(stack, k) ELSE items, k))

Generated(raised, items, calls) == [raised |-> raised, items |-> items, calls |-> calls]

\* @retry(stop=stop_after_attempt(3), ..., reraise=False): attempt number n
\* of generate_stack_questions with the replies raws; after the last failed
\* attempt a RetryError is raised
RECURSIVE generate_stack_questions_from(_, _, _, _)
generate_stack_questions_from(stack, k, raws, n) ==
  LET a == generate_stack_questions_once(stack, k, raws[n])
  IN  IF ~a.raised THEN Generated(FALSE, a.items, n)
      ELSE IF n >= MaxAttempts THEN Generated(TRUE, <<>>, n)
      ELSE generate_stack_questions_from(stack, k, raws, n + 1)

generate_stack_questions(stack, k, raws) == generate_stack_questions_from(stack, k, raws, 1)

\* -------------------------------------------------------------- app.py
\* str(uuid.uuid4())[:8]: the n-th token drawn; tokens drawn are distinct
uuid4(n) == <<"uuid4-">> \o numeral(n)

questions_map ==
  << <<<<"p","y","t","h","o","n">>, <<"Explain the difference between lists and tuples in Python and when to use each.">> >>,
     <<<<"d","j","a","n","g","o">>, <<"How does Django's ORM work and what are its main advantages?">> >>,
     <<<<"j","a","v","a","s","c","r","i","p","t">>, <<"What is the difference between == and === in JavaScript?">> >>,
     <<<<"r","e","a","c","t">>, <<"Explain the component lifecycle in React.">> >>,
     <<<<"s","q","l">>, <<"What's the difference between INNER JOIN and LEFT JOIN?">> >>,
     <<<<"m","a","c","h","i","n","e"," ","l","e","a","r","n","i","n","g">>, <<"Explain the bias-variance tradeoff in machine learning.">> >>,
     <<<<"d","a","t","a"," ","s","c","i","e","n","c","e">>, <<"How do you handle missing data in a dataset?">> >>,
     <<<<"a","w","s">>, <<"What are the key differences between EC2 and Lambda?">> >>,
     <<<<"d","o","c","k","e","r">>, <<"Explain the difference between Docker images and containers.">> >>,
     <<<<"g","i","t">>, <<"What's the difference between merge and rebase in Git?">> >>,
     <<<<"n","o","d","e","j","s">>, <<"Explain the event loop in Node.js.">> >>,
     <<<<"j","a","v","a">>, <<"What's the difference between abstract classes and interfaces in Java?">> >>,
     <<<<"c","+","+">>, <<"Explain the concept of RAII in C++.">> >>,
     <<<<"k","u","b","e","r","n","e","t","e","s">>, <<"What's the difference between Deployment and StatefulSet?">> >>,
     <<<<"m","o","n","g","o","d","b">>, <<"Explain the difference between SQL and NoSQL databases.">> >> >>

CHALLENGING(tech) ==
  <<"Describe a challenging project you worked on using ">> \o tech
    \o <<" and how you solved key problems.">>

\* the inner loop over questions_map: the first unused question whose key
\* contains tech_lower or is contained in it, or None
map_question(tech_lower, used) ==
  LET hits == {i \in 1..Len(questions_map) :
                 /\ contains(tech_lower, questions_map[i][1])
                    \/ contains(questions_map[i][1], tech_lower)
                 /\ questions_map[i][2] \notin used}
  IN  IF hits = {} THEN None
      ELSE Some(questions_map[CHOOSE i \in hits : \A j \in hits : i <= j][2])

\* the loop "for tech in base[:k]" from position i, with the items so far,
\* the questions used and the number of uuid tokens drawn
RECURSIVE sync_fallback_loop(_, _, _, _, _)
sync_fallback_loop(base, i, items, used, u) ==
  IF i > Len(base) THEN [items |-> items, uuid |-> u]
  ELSE LET tech == base[i]
           hit == map_question(strip(lower(tech)), used)
           question_text == IF IsNone(hit) THEN CHALLENGING(tech) ELSE Val(hit)
       IN  sync_fallback_loop(base, i + 1,
             Append(items, QAQuestion(tech, question_text, "medium", Some(uuid4(u + 1)))),
             IF IsNone(hit) THEN used ELSE used \cup {Val(hit)}, u + 1)

\* a fallback that does not pad
sync_fallback_unpadded(items, k, u) == [items |-> items, uuid |-> u]

\* the loop "while len(items) < k"
RECURSIVE sync_fallback_pad(_, _, _)
sync_fallback_pad(items, k, u) ==
  IF Len(items) >= k THEN [items |-> items, uuid |-> u]
  ELSE sync_fallback_pad(
         Append(items, QAQuestion(<<"g","e","n","e","r","a","l">>, APP_TEXT.DEBUGGING, "medium", Some(uuid4(u + 1)))),
         k, u + 1)

\* the except branch of generate_questions_sync: one question per
\* technology of stack[:k], padded to k
sync_fallback(stack, k, u) ==
  LET base == IF Len(stack) = 0 THEN <<GENERAL_SE>> ELSE stack
      looped == sync_fallback_loop(take(base, k), 1, <<>>, {}, u)
  IN  sync_fallback_pad(looped.items, k, looped.uuid)

\* the QASet that generate_questions_sync returns when the generator
\* returned or raised as g says, and when the except branch gives padded
sync_result(g, padded, k, u) ==
  IF ~g.raised
  THEN [items |-> g.items, calls |-> g.calls, uuid |-> u, fellback |-> FALSE]
  ELSE [items |-> take(padded.items, k), calls |-> g.calls, uuid |-> padded.uuid,
        fellback |-> TRUE]

\* generate_questions_sync(stack, k) with the replies raws and u uuid tokens
\* drawn so far: the QASet's items, the service calls made, the tokens drawn
generate_questions_sync(stack, k, raws, u) ==
  sync_result(generate_stack_questions(stack, k, raws), sync_fallback(stack, k, u), k, u)

\* ------------------------------------------------ core/answer_scorer.py
\* JSON data of a scorer reply: a dict or not; its "score" (None when the
\* key is missing) as a JSON value of type int, float, str, null or list,
\* a number being n / d; its "reasoning", "strengths" and "improvements"
\* (None when missing); typed says whether those three, when present, have
\* the types AnswerScore declares.
JsonNum(t, n, d) == [t |-> t, n |-> n, d |-> d]
ScoreData(isdict, score, reasoning, strengths, improvements, typed) ==
  [ isdict |-> isdict, score |-> score, reasoning |-> reasoning,
    strengths |-> strengths, improvements |-> improvements, typed |-> typed ]

\* the fixed texts of answer_scorer.py
SCORER_TEXT ==
  [ UNPARSED |->
      <<"Unable to parse detailed scoring.">>,
    NO_REASONING |->
      <<"No detailed reasoning provided">>,
    TOO_BRIEF |->
      <<"Answer is too brief for a technical question">>,
    BASIC |->
      <<"Answer has basic content but lacks depth">>,
    GOOD |->
      <<"Good comprehensive answer with adequate detail">>,
    COMPREHENSIVE |->
      <<"Comprehensive and detailed answer">> ]

\* the dict _extract_json falls back to
DEFAULT_SCORE_DATA ==
  ScoreData(TRUE, Some(JsonNum("int", 5, 1)), Some(SCORER_TEXT.UNPARSED),
            Some(<< <<"Answer provided">> >>),
            Some(<< <<"Could provide more detail">> >>), TRUE)

\* _extract_json(text)
extract_json(raw) ==
  IF raw.direct.ok THEN raw.direct.data
  ELSE IF raw.braces /\ raw.inner.ok THEN raw.inner.data
  ELSE DEFAULT_SCORE_DATA

\* max(0, min(10, x)) for a number x = n / d
clamp_0_10(x) ==
  LET m == IF x.n < 10 * x.d THEN x ELSE JsonNum("int", 10, 1)
  IN  IF m.n > 0 THEN m ELSE JsonNum("int", 0, 1)

Scored(raised, result) == [raised |-> raised, result |-> result]


\* lines 120-151 of simple_score_answer, for the length of the stripped answer
simple_score(answer_length, difficulty) ==
  LET base == IF answer_length < 20 THEN 3
              ELSE IF answer_length < 50 THEN 5
              ELSE IF answer_length < 150 THEN 7
              ELSE 8
      reasoning == IF answer_length < 20 THEN SCORER_TEXT.TOO_BRIEF
                   ELSE IF answer_length < 50 THEN SCORER_TEXT.BASIC
                   ELSE IF answer_length < 150 THEN SCORER_TEXT.GOOD
                   ELSE SCORER_TEXT.COMPREHENSIVE
      strengths == IF answer_length < 20 THEN <<>>
                   ELSE IF answer_length < 50 THEN << <<"Clear and concise">> >>
                   ELSE IF answer_length < 150
                   THEN << <<"Well-structured response">>, <<"Good level of detail">> >>
                   ELSE << <<"Thorough explanation">>, <<"Good depth of knowledge">> >>
      improvements ==
        IF answer_length < 20
        THEN << <<"Provide more detailed explanation">>, <<"Include examples or use cases">> >>
        ELSE IF answer_length < 50
        THEN << <<"Add more technical details">>, <<"Explain the reasoning behind your answer">> >>
        ELSE IF answer_length < 150 THEN << <<"Could include more specific examples">> >>
        ELSE << <<"Excellent detail level">> >>
      score == IF difficulty = "easy" /\ base >= 6
               THEN (IF base + 1 < 10 THEN base + 1 ELSE 10)
               ELSE IF difficulty = "hard" /\ base <= 7
               THEN (IF base - 1 > 1 THEN base - 1 ELSE 1)
               ELSE base
  IN  AnswerScore(score, reasoning, strengths, improvements)

\* a fallback score from the length of the answer as typed
simple_score_answer_untrimmed(answer, topic, difficulty) == simple_score(Len(answer), difficulty)

\* simple_score_answer(answer, topic, difficulty)
simple_score_answer(answer, topic, difficulty) == simple_score(Len(strip(answer)), difficulty)

\* the try block of score_answer raises: the call raised, the data is no
\* dict (.get), the score is no number (min), or AnswerScore rejects a
\* field (a score with a fractional part or outside 0..10, a field of the
\* wrong type)
ScoreInvalid(x) == x.n % x.d # 0 \/ x.n < 0 \/ x.n > 10 * x.d

ScoreDataRaises(score_data) ==
  \/ ~score_data.isdict
  \/ /\ ~IsNone(score_data.score)
     /\ \/ Val(score_data.score).t \notin {"int", "float"}
        \/ ScoreInvalid(clamp_0_10(Val(score_data.score)))
  \/ ~score_data.typed

ScoreTryRaises(raw) == raw.raises \/ ScoreDataRaises(extract_json(raw))

\* a try block that returns the service's score as it is
ScoreDataUnclamped(score_data) ==
  LET x == IF IsNone(score_data.score) THEN JsonNum("int", 5, 1) ELSE Val(score_data.score)
  IN  AnswerScore(x.n \div x.d,
                  IF IsNone(score_data.reasoning) THEN SCORER_TEXT.NO_REASONING ELSE Val(score_data.reasoning),
                  IF IsNone(score_data.strengths) THEN <<>> ELSE Val(score_data.strengths),
                  IF IsNone(score_data.improvements) THEN <<>> ELSE Val(score_data.improvements))

\* the AnswerScore the try block returns
ScoreDataResult(score_data) ==
  LET x == IF IsNone(score_data.score) THEN JsonNum("int", 5, 1) ELSE Val(score_data.score)
  IN  AnswerScore(clamp_0_10(x).n \div clamp_0_10(x).d,
                  IF IsNone(score_data.reasoning) THEN SCORER_TEXT.NO_REASONING ELSE Val(score_data.reasoning),
                  IF IsNone(score_data.strengths) THEN <<>> ELSE Val(score_data.strengths),
                  IF IsNone(score_data.improvements) THEN <<>> ELSE Val(score_data.improvements))

ScoreTryResult(raw) == ScoreDataResult(extract_json(raw))

\* the body of score_answer, one attempt with reply raw: every exception of
\* the try block is caught and answered by simple_score_answer
score_answer_once(answer, topic, difficulty, raw) ==
  IF ScoreTryRaises(raw)
  THEN Scored(FALSE, simple_score_answer(answer, topic, difficulty))
  ELSE Scored(FALSE, ScoreTryResult(raw))

\* @retry(stop=stop_after_attempt(3), ...): attempt number n of score_answer
\* with the replies raws
RECURSIVE score_answer_from(_, _, _, _, _)
score_answer_from(answer, topic, difficulty, raws, n) ==
  LET a == score_answer_once(answer, topic, difficulty, raws[n])
  IN  IF ~a.raised THEN [raised |-> FALSE, result |-> a.result, calls |-> n]
      ELSE IF n >= MaxAttempts THEN [raised |-> TRUE, result |-> a.result, calls |-> n]
      ELSE score_answer_from(answer, topic, difficulty, raws, n + 1)

score_answer(answer, topic, difficulty, raws) ==
  score_answer_from(answer, topic, difficulty, raws, 1)

\* sum(score.score for score in scores.values())
RECURSIVE total_score(_)
total_score(scores) ==
  IF Len(scores) = 0 THEN 0
  ELSE scores[1][2].score + total_score(SubSeq(scores, 2, Len(scores)))

\* a rounding that drops the digits after the first decimal
round1_truncated(p, q) == (10 * p) \div q

\* round(p / q, 1) in tenths: to the nearest tenth, a tie to the even one
round1(p, q) ==
  LET lo == (10 * p) \div q
      r == (10 * p) % q
  IN  IF 2 * r < q THEN lo
      ELSE IF 2 * r > q THEN lo + 1
      ELSE IF lo % 2 = 0 THEN lo ELSE lo + 1

\* calculate_overall_score(scores), in tenths
calculate_overall_score(scores) ==
  IF Len(scores) = 0 THEN 0 ELSE round1(total_score(scores), Len(scores))

\* -------------------------------------------------------------- app.py
\* st.session_state, as the script reads and writes it
SessionState(c, s, h, qg, gq, u) ==
  [ candidate |-> c, state |-> s, history |-> h, questions_generated |-> qg,
    generated_questions |-> gq, uuid |-> u ]


upper_difficulty(d) ==
  CASE d = "easy" -> "EASY" [] d = "medium" -> "MEDIUM" [] d = "hard" -> "HARD"

\* an overall score, held in tenths, as text
tenths_text(t) == numeral(t \div 10) \o <<".">> \o numeral(t % 10)

SCORED(score) == <<"**Answer Scored: ">> \o numeral(score) \o <<"/10**">>
FEEDBACK(reasoning) == <<"**Feedback:** ">> \o reasoning
STRENGTHS(xs) == <<"**Strengths:** ">> \o join(xs, <<", ">>)
IMPROVEMENTS(xs) == <<"**Areas for Improvement:** ">> \o join(xs, <<", ">>)
QUESTION_N(n, q) ==
  <<"**Question ">> \o numeral(n) \o <<". [", upper_difficulty(q.difficulty), "]** ">>
    \o q.question
OVERALL(t) == <<"**Overall Technical Score: ">> \o tenths_text(t) \o <<"/10**">>
PERFORMANCE(t) ==
  IF t >= 80 THEN <<"Excellent performance! Strong technical knowledge demonstrated.">>
  ELSE IF t >= 60 THEN <<"Good performance! Solid understanding with some areas for growth.">>
  ELSE <<"Developing skills! Consider strengthening technical fundamentals.">>

\* the messages after a score from score_answer
scored_messages(r) ==
  << SCORED(r.score), FEEDBACK(r.reasoning) >>
    \o (IF Len(r.strengths) > 0 THEN <<STRENGTHS(r.strengths)>> ELSE <<>>)
    \o (IF Len(r.improvements) > 0 THEN <<IMPROVEMENTS(r.improvements)>> ELSE <<>>)

\* the messages of the except branch
fallback_messages(r) == << SCORED(r.score), FEEDBACK(r.reasoning), APP_TEXT.UNAVAILABLE >>

Handled(ret, ss, calls) == [ret |-> ret, ss |-> ss, calls |-> calls]

\* lines 151-191: the answer and its score are stored under question_id
store_scored(ss, answer, question_id, raised, score_result, calls) ==
  Handled(TRUE,
    [ss EXCEPT !.candidate.technical_answers = DictSet(@, question_id, answer),
               !.candidate.answer_scores = DictSet(@, question_id, score_result),
               !.history = bot_say_all(@, IF raised THEN fallback_messages(score_result)
                                          ELSE scored_messages(score_result))],
    calls)

\* the try of lines 156-180 with score_answer's outcome sc, and the except
\* of lines 182-191 with simple_score_answer's result
store_outcome(ss, answer, question_id, sc, simple) ==
  store_scored(ss, answer, question_id, sc.raised,
               IF sc.raised THEN simple ELSE sc.result, sc.calls)

store_stripped(ss, answer, question, raws) ==
  store_outcome(ss, answer, question.question_id,
                score_answer(answer, question.topic, question.difficulty, raws),
                simple_score_answer(answer, question.topic, question.difficulty))

\* an answer stored and scored as typed
store_answer_untrimmed(ss, text, question, raws) == store_stripped(ss, text, question, raws)

store_answer(ss, text, question, raws) == store_stripped(ss, strip(text), question, raws)

\* an advance that moves to FOLLOWUP one answer late: after the last
\* question the cursor equals the number of questions and the step stays
advance_question_one_late(ss, questions) ==
  LET idx == ss.state.current_question_index + 1
      overall_score == calculate_overall_score(ss.candidate.answer_scores)
  IN  IF idx < Len(questions)
      THEN [ss EXCEPT !.state.current_question_index = idx,
                      !.history = bot_say(@, QUESTION_N(idx + 1, questions[idx + 1]))]
      ELSE IF idx = Len(questions)
      THEN [ss EXCEPT !.state.current_question_index = idx]
      ELSE [ss EXCEPT !.state.current_question_index = idx,
                      !.state.step = "FOLLOWUP",
                      !.candidate.overall_score = Some(overall_score),
                      !.history = bot_say_all(@, << APP_TEXT.COMPLETE, OVERALL(overall_score),
                                                   PERFORMANCE(overall_score), APP_TEXT.ADD_COMMENTS >>)]

\* an advance that computes the overall score after every answer
advance_question_scores_early(ss, questions) ==
  LET idx == ss.state.current_question_index + 1
      overall_score == calculate_overall_score(ss.candidate.answer_scores)
  IN  IF idx < Len(questions)
      THEN [ss EXCEPT !.state.current_question_index = idx,
                      !.candidate.overall_score = Some(overall_score),
                      !.history = bot_say(@, QUESTION_N(idx + 1, questions[idx + 1]))]
      ELSE [ss EXCEPT !.state.current_question_index = idx,
                      !.state.step = "FOLLOWUP",
                      !.candidate.overall_score = Some(overall_score),
                      !.history = bot_say_all(@, << APP_TEXT.COMPLETE, OVERALL(overall_score),
                                                   PERFORMANCE(overall_score), APP_TEXT.ADD_COMMENTS >>)]

\* lines 193-228: the cursor moves on; the next question, or the overall
\* score and FOLLOWUP
advance_question(ss, questions) ==
  LET idx == ss.state.current_question_index + 1
      overall_score == calculate_overall_score(ss.candidate.answer_scores)
  IN  IF idx < Len(questions)
      THEN [ss EXCEPT !.state.current_question_index = idx,
                      !.history = bot_say(@, QUESTION_N(idx + 1, questions[idx + 1]))]
      ELSE [ss EXCEPT !.state.current_question_index = idx,
                      !.state.step = "FOLLOWUP",
                      !.candidate.overall_score = Some(overall_score),
                      !.history = bot_say_all(@, << APP_TEXT.COMPLETE, OVERALL(overall_score),
                                                   PERFORMANCE(overall_score), APP_TEXT.ADD_COMMENTS >>)]

\* handle_technical_answer(text) with the scorer's replies raws
answer_stored(stored, questions) ==
  Handled(TRUE, advance_question(stored.ss, questions), stored.calls)

\* a handler that tests the length of the text as typed
handle_technical_answer_untrimmed(ss, text, raws) ==
  LET current_idx == ss.state.current_question_index
      questions == ss.generated_questions
  IN  IF Len(text) < MinAnswerLen
      THEN Handled(FALSE, [ss EXCEPT !.history = bot_say(@, APP_TEXT.GUIDE_DETAIL)], 0)
      ELSE IF current_idx < Len(questions)
      THEN answer_stored(store_answer(ss, text, questions[current_idx + 1], raws), questions)
      ELSE Handled(FALSE, ss, 0)

handle_technical_answer(ss, text, raws) ==
  LET current_idx == ss.state.current_question_index
      questions == ss.generated_questions
  IN  IF Len(text) = 0 \/ Len(strip(text)) < MinAnswerLen
      THEN Handled(FALSE, [ss EXCEPT !.history = bot_say(@, APP_TEXT.GUIDE_DETAIL)], 0)
      ELSE IF current_idx < Len(questions)
      THEN answer_stored(store_answer(ss, text, questions[current_idx + 1], raws), questions)
      ELSE Handled(FALSE, ss, 0)

LISTED(i, q) ==
  <<"**">> \o numeral(i) \o <<". [", upper_difficulty(q.difficulty), "] ">> \o q.topic
    \o <<"** - ">> \o q.question

\* lines 388-395: the dicts of questions_data from item i on; an item with
\* no question_id (None or "") gets a uuid token
RECURSIVE questions_data_from(_, _, _, _)
questions_data_from(items, i, acc, u) ==
  IF i > Len(items) THEN [data |-> acc, uuid |-> u]
  ELSE LET q == items[i]
           has_id == ~IsNone(q.question_id) /\ Len(Val(q.question_id)) > 0
       IN  questions_data_from(items, i + 1,
             Append(acc, QAQuestion(q.topic, q.question, q.difficulty,
                                    IF has_id THEN Val(q.question_id) ELSE uuid4(u + 1))),
             IF has_id THEN u ELSE u + 1)

\* lines 382-425: the block that generates the questions, with the
\* generator's replies raws; questions_data[0] of an empty list raises and
\* the except branch moves to FOLLOWUP
questions_stored(ss, questions_data, u) ==
  LET listing == <<>> \o [i \in 1..Len(questions_data) |-> LISTED(i, questions_data[i])]
  IN  IF Len(questions_data) = 0
      THEN [ss EXCEPT !.generated_questions = questions_data,
                      !.candidate.technical_questions = questions_data,
                      !.uuid = u,
                      !.state.step = "FOLLOWUP",
                      !.history = bot_say_all(@, <<APP_TEXT.HERE_ARE>> \o listing \o <<APP_TEXT.LETS_BEGIN, APP_TEXT.TROUBLE>>)]
      ELSE [ss EXCEPT !.generated_questions = questions_data,
                      !.candidate.technical_questions = questions_data,
                      !.uuid = u,
                      !.questions_generated = TRUE,
                      !.state.step = "TECHNICAL_QA",
                      !.state.current_question_index = 0,
                      !.history = bot_say_all(@, <<APP_TEXT.HERE_ARE>> \o listing
                                     \o <<APP_TEXT.LETS_BEGIN, QUESTION_N(1, questions_data[1])>>)]

questions_listed(ss, qd, calls) == Handled(FALSE, questions_stored(ss, qd.data, qd.uuid), calls)

questions_received(ss, qa) ==
  questions_listed(ss, questions_data_from(qa.items, 1, <<>>, qa.uuid), qa.calls)

generation_block(ss, raws) ==
  questions_received(ss, generate_questions_sync(ss.candidate.tech_stack, K, raws, ss.uuid))

\* ---------------------------------------------------- core/security.py
\* mask_email(email)
mask_email(email) ==
  IF Len(email) = 0 \/ ~contains(email, <<"@">>) THEN email
  ELSE LET at == CHOOSE i \in 1..Len(email) :
                   email[i] = "@" /\ \A j \in 1..(i - 1) : email[j] # "@"
           name == SubSeq(email, 1, at - 1)
           domain == SubSeq(email, at + 1, Len(email))
           masked_name ==
             IF Len(name) <= 2 THEN <<name[1], "*">>
             ELSE <<name[1]>> \o [i \in 1..(Len(name) - 2) |-> "*"] \o <<name[Len(name)]>>
       IN  masked_name \o <<"@">> \o domain

\* -------------------------------------------------------------- app.py
ALREADY_THANKED == <<"T","h","a","n","k"," ","y","o","u"," ","f","o","r"," ","y","o","u","r"," ","t","i","m","e","!">>

INTERPRETATION(t) ==
  IF t >= 80 THEN <<"**Outstanding** - Demonstrates strong technical expertise">>
  ELSE IF t >= 60 THEN <<"**Good** - Solid technical foundation with growth potential">>
  ELSE IF t >= 40 THEN <<"**Developing** - Basic understanding, room for improvement">>
  ELSE <<"**Entry Level** - Consider additional training or study">>

\* a years_experience n / d as the text of the float
RECURSIVE zeros(_)
zeros(n) == IF n <= 0 THEN <<>> ELSE <<"0">> \o zeros(n - 1)
RECURSIVE Log10(_)
Log10(d) == IF d <= 1 THEN 0 ELSE 1 + Log10(d \div 10)
years_text(y) ==
  LET frac == numeral(y.n % y.d)
  IN  numeral(y.n \div y.d) \o <<".">>
        \o (IF y.d = 1 THEN <<"0">> ELSE zeros(Log10(y.d) - Len(frac)) \o frac)

BREAKDOWN_LINE(i, score) ==
  <<"**Q">> \o numeral(i) \o <<":** ">> \o numeral(score.score) \o <<"/10 - ">>
    \o take(score.reasoning, 80) \o <<"...">>

\* lines 474-499: the lines of the summary
summary_lines(c) ==
  (IF ~IsNone(c.full_name) /\ Len(Val(c.full_name)) > 0
   THEN << <<"**Name:** ">> \o Val(c.full_name) >> ELSE <<>>)
  \o (IF ~IsNone(c.email) /\ Len(Val(c.email)) > 0
      THEN << <<"**Email:** ">> \o mask_email(Val(c.email)) >> ELSE <<>>)
  \o (IF ~IsNone(c.years_experience)
      THEN << <<"**Experience:** ">> \o years_text(Val(c.years_experience)) \o <<" years">> >>
      ELSE <<>>)
  \o (IF Len(c.desired_positions) > 0
      THEN << <<"**Positions:** ">> \o join(c.desired_positions, <<",", " ">>) >> ELSE <<>>)
  \o (IF Len(c.tech_stack) > 0
      THEN << <<"**Tech Stack:** ">> \o join(c.tech_stack, <<",", " ">>) >> ELSE <<>>)
  \o << <<"**Technical Assessment:** ">> \o numeral(Len(c.technical_answers)) \o <<"/">>
          \o numeral(Len(c.technical_questions)) \o <<" questions completed">> >>
  \o (IF ~IsNone(c.overall_score) /\ Val(c.overall_score) # 0
      THEN << <<"**AI Technical Score:** ">> \o tenths_text(Val(c.overall_score)) \o <<"/10">> >>
      ELSE <<>>)
  \o (IF ~IsNone(c.additional_comments) /\ Len(Val(c.additional_comments)) > 0
      THEN << <<"**Additional Comments:** ">> \o take(Val(c.additional_comments), 100) \o <<"...">> >>
      ELSE <<>>)

SUMMARY(c) == <<"**Summary (sensitive data masked):**", "\n">> \o join(summary_lines(c), <<"\n">>)

\* lines 434-499: the messages of the end-of-session block
end_messages(c) ==
  LET overall_score == IF IsNone(c.overall_score) THEN 0 ELSE Val(c.overall_score)
  IN  << APP_TEXT.THANK_YOU, APP_TEXT.NEXT_STEPS >>
      \o (IF Len(c.answer_scores) > 0
          THEN << APP_TEXT.RESULTS, OVERALL(overall_score), INTERPRETATION(overall_score), APP_TEXT.BREAKDOWN >>
               \o [i \in 1..Len(c.answer_scores) |-> BREAKDOWN_LINE(i, c.answer_scores[i][2])]
          ELSE <<>>)
      \o << SUMMARY(c) >>

\* an end-of-session block that starts the conversation over after the summary
end_block_reopens(ss) ==
  IF ss.state.step = "END" \/ ss.state.exit_detected
  THEN [ss EXCEPT !.history = bot_say_all(@, end_messages(ss.candidate)),
                  !.state.step = "CONSENT"]
  ELSE ss

\* lines 428-499: the end-of-session block, up to the buttons
end_block(ss) ==
  LET already_thanked ==
        \E i \in 1..Len(ss.history) :
          ss.history[i].role = "assistant" /\ contains(ss.history[i].content, ALREADY_THANKED)
  IN  IF ss.state.step = "END" \/ ss.state.exit_detected
      THEN (IF already_thanked THEN ss
            ELSE [ss EXCEPT !.history = bot_say_all(@, end_messages(ss.candidate))])
      ELSE ss

\* lines 381-499: what a script run does after the input handling (in the
\* same run, or in the run st.rerun() starts), with the generator's replies
script_end(generated) == [ss |-> end_block(generated.ss), gen_calls |-> generated.calls]

script_rest(ss, gen_raws) ==
  script_end(IF ss.state.step = "GENERATE_QA" /\ ~ss.questions_generated
             THEN generation_block(ss, gen_raws) ELSE Handled(FALSE, ss, 0))

\* lines 348-363: an intake step's input
intake_next(ss, a, ns) ==
  LET next_step_val == ns.ret
      q == get_next_question(next_step_val)
      said == IF InIntakeSteps(next_step_val)
              THEN (IF Len(q) > 0 THEN bot_say(a.history, q) ELSE a.history)
              ELSE IF next_step_val = "GENERATE_QA" THEN bot_say(a.history, APP_TEXT.PREPARING)
              ELSE a.history
  IN  IF a.ok
      THEN Handled(TRUE, [ss EXCEPT !.candidate = ns.candidate,
                                    !.state = [ns.state EXCEPT !.step = next_step_val],
                                    !.history = said], 0)
      ELSE Handled(FALSE, [ss EXCEPT !.candidate = a.candidate, !.history = a.history], 0)

intake_applied(ss, a) == intake_next(ss, a, next_step(a.candidate, ss.state))

intake_input(ss, prompt) ==
  intake_applied(ss, apply_answer_to_step(ss.state.step, prompt, ss.candidate, ss.history))

\* an input handling that keeps a follow-up comment as typed
prompt_handling_comment_as_typed(ss, prompt, score_raws) ==
  LET current_step == ss.state.step
  IN  IF detect_exit(prompt)
      THEN Handled(TRUE, [ss EXCEPT !.state.exit_detected = TRUE, !.state.step = "END"], 0)
      ELSE IF InIntakeSteps(current_step) THEN intake_input(ss, prompt)
      ELSE IF current_step = "TECHNICAL_QA" THEN handle_technical_answer(ss, prompt, score_raws)
      ELSE IF current_step = "FOLLOWUP"
      THEN Handled(TRUE, [ss EXCEPT !.candidate.additional_comments = Some(prompt),
                                    !.history = bot_say(@, APP_TEXT.MORE_COMMENTS)], 0)
      ELSE Handled(FALSE, ss, 0)

\* an input handling that looks for an exit keyword after the step's own
\* processing
prompt_handling_exit_last(ss, prompt, score_raws) ==
  LET current_step == ss.state.step
  IN  IF InIntakeSteps(current_step) THEN intake_input(ss, prompt)
      ELSE IF current_step = "TECHNICAL_QA" THEN handle_technical_answer(ss, prompt, score_raws)
      ELSE IF detect_exit(prompt)
      THEN Handled(TRUE, [ss EXCEPT !.state.exit_detected = TRUE, !.state.step = "END"], 0)
      ELSE IF current_step = "FOLLOWUP"
      THEN Handled(TRUE, [ss EXCEPT !.candidate.additional_comments = Some(strip(prompt)),
                                    !.history = bot_say(@, APP_TEXT.MORE_COMMENTS)], 0)
      ELSE Handled(FALSE, ss, 0)

\* lines 335-379: the input handling of a script run with a prompt
prompt_handling(ss, prompt, score_raws) ==
  LET current_step == ss.state.step
  IN  IF detect_exit(prompt)
      THEN Handled(TRUE, [ss EXCEPT !.state.exit_detected = TRUE, !.state.step = "END"], 0)
      ELSE IF InIntakeSteps(current_step) THEN intake_input(ss, prompt)
      ELSE IF current_step = "TECHNICAL_QA" THEN handle_technical_answer(ss, prompt, score_raws)
      ELSE IF current_step = "FOLLOWUP"
      THEN Handled(TRUE, [ss EXCEPT !.candidate.additional_comments = Some(strip(prompt)),
                                    !.history = bot_say(@, APP_TEXT.MORE_COMMENTS)], 0)
      ELSE Handled(FALSE, ss, 0)

\* an input handling that clears the exit flag at every new message
input_handling_forgets_exit(ss, prompt, score_raws) ==
  prompt_handling([ss EXCEPT !.history = user_say(@, prompt), !.state.exit_detected = FALSE],
                  prompt, score_raws)

input_handling(ss, prompt, score_raws) ==
  prompt_handling([ss EXCEPT !.history = user_say(@, prompt)], prompt, score_raws)

\* lines 344-375 up to the handler's first write to the candidate: what
\* the try has done when the statement after that write raises
fault_writes(ss, prompt) ==
  LET current_step == ss.state.step
      current_idx == ss.state.current_question_index
      questions == ss.generated_questions
  IN  IF InIntakeSteps(current_step)
      THEN LET a == apply_answer_to_step(current_step, prompt, ss.candidate, ss.history)
           IN  [ss EXCEPT !.candidate = a.candidate, !.history = a.history]
      ELSE IF current_step = "TECHNICAL_QA"
      THEN (IF Len(prompt) = 0 \/ Len(strip(prompt)) < MinAnswerLen
            THEN [ss EXCEPT !.history = bot_say(@, APP_TEXT.GUIDE_DETAIL)]
            ELSE IF current_idx < Len(questions)
            THEN [ss EXCEPT !.candidate.technical_answers =
                              DictSet(@, questions[current_idx + 1].question_id, strip(prompt))]
            ELSE ss)
      ELSE IF current_step = "FOLLOWUP"
      THEN [ss EXCEPT !.candidate.additional_comments = Some(strip(prompt))]
      ELSE ss

\* lines 376-379: the except branch of the input handling
went_wrong(ss) == [ss EXCEPT !.history = bot_say(@, APP_TEXT.WENT_WRONG)]

\* lines 335-379 for a prompt without an exit keyword when a statement of
\* the try raises an exception, at its first statement or after the
\* handler's first write: the writes made so far stay, no line restores them
fault_handling(ss, prompt, point) ==
  IF point = "before_write"
  THEN went_wrong([ss EXCEPT !.history = user_say(@, prompt)])
  ELSE went_wrong(fault_writes([ss EXCEPT !.history = user_say(@, prompt)], prompt))

\* a user message: the script run it starts and the reruns that follow, with
\* the replies the scorer and the generator get; the service calls made
run_done(handled, rest) ==
  [ ret |-> handled.ret, ss |-> rest.ss,
    score_calls |-> handled.calls, gen_calls |-> rest.gen_calls ]

run_rest(handled, gen_raws) == run_done(handled, script_rest(handled.ss, gen_raws))

run_script(ss, prompt, score_raws, gen_raws) ==
  run_rest(input_handling(ss, prompt, score_raws), gen_raws)

\* a session that starts at the first intake question
initialize_session_at_name(u) ==
  SessionState(NewCandidate, NewConversationState("INTAKE_NAME"),
               bot_say(<<>>, APP_TEXT.GREETING), FALSE, <<>>, u)

\* initialize_session() on an empty st.session_state, with u uuid tokens drawn
initialize_session(u) ==
  SessionState(NewCandidate, NewConversationState("CONSENT"),
               bot_say(<<>>, APP_TEXT.GREETING), FALSE, <<>>, u)

\* ------------------------------------------------------ core/storage.py
\* a line of DATA_FILE is a record (one whole JSON object and its newline),
\* or what a write that failed part-way left: a fragment of a record without
\* its newline, to which the next bytes written are joined
IsRecordLine(line) == "submitted_at" \in DOMAIN line

Unterminated(lines) ==
  IF lines = <<>> THEN FALSE ELSE DOMAIN lines[Len(lines)] = {"fragment"}

\* f.write(data) in append mode: the bytes go after the last byte of the file
write_line(lines, data) ==
  IF Unterminated(lines)
  THEN [lines EXCEPT ![Len(lines)] = [fragment |-> @.fragment, joined |-> data]]
  ELSE Append(lines, data)

\* save_candidate(candidate_dict) on the lines of the file, at time now: the
\* record is the dict with the key submitted_at added, appended as one line
save_candidate(lines, candidate_dict, now) ==
  write_line(lines, [key \in DOMAIN candidate_dict \cup {"submitted_at"} |->
                       IF key = "submitted_at" THEN now ELSE candidate_dict[key]])

\* save_candidate when the write fails after some of the bytes reached the
\* file (disk full, file size limit): the exception is raised to the caller
\* and the bytes written stay, without a newline
save_candidate_torn(lines, candidate_dict, now) ==
  IF Unterminated(lines) THEN lines
  ELSE Append(lines, [fragment |-> save_candidate(<<>>, candidate_dict, now)[1]])

\* load_candidates(): every line is parsed in order; a line that is not one
\* JSON object raises inside the try, and the except returns the empty list
load_candidates(lines) ==
  IF \A i \in 1..Len(lines) : IsRecordLine(lines[i]) THEN lines ELSE <<>>


\* ------------------------------------------------------------ the user
\* The texts a user types at a step: the first one is the step's reference
\* input, the others are rejected, accepted as well, or ask to leave.
UserInputs(st) ==
  CASE st = "CONSENT" -> << <<"I"," ","a","g","r","e","e">>, <<"n","o">>, <<"e","x","i","t">> >>
    [] st = "INTAKE_NAME" -> << <<"J","a","n","e"," ","D","o","e">>, <<"J">>, <<"b","y","e">> >>
    [] st = "INTAKE_EMAIL" ->
         << <<"j","a","n","e","@","x",".","c","o","m">>, <<" ","J","a","n","e","@","X",".","c","o","m","."," ">>, <<"j","a","n","e","@","x">>, <<"j","a","n","e",".","x",".","c","o","m">>, <<"Q","U","I","T">> >>
    [] st = "INTAKE_PHONE" ->
         << <<"+","1","2","3","4","5","6">>, <<"+","1"," ","(","2","3","4",")"," ","5","6","7","-","8","9","0","1">>, <<"1","2","3","4","5">>, <<"s","t","o","p">>,
            <<"+","1"," ","2","3","4","+","5","6","7">> >>
    [] st = "INTAKE_YOE" ->
         << <<"4">>, <<"3",",","5">>, <<"5","0">>, <<"0">>, <<"5","0",".","1">>, <<"-","1">>, <<"f","o","u","r">>, <<"d","o","n","e">> >>
    [] st = "INTAKE_POSITION" ->
         << <<"D","a","t","a"," ","S","c","i","e","n","t","i","s","t">>, <<"B","a","c","k","e","n","d"," ","E","n","g","i","n","e","e","r">>, <<","," ",",">>, <<"x">> >>
    [] st = "INTAKE_LOCATION" -> << <<"B","e","r","l","i","n">>, <<"B">>, <<"p","l","e","a","s","e"," ","e","x","i","t"," ","n","o","w">> >>
    [] st = "INTAKE_TECH" -> << <<"p","y","t","h","o","n",","," ","s","q","l">>, <<"g","o">>, <<","," ",",">>, <<"I"," ","a","m"," ","f","i","n","i","s","h","e","d">> >>
    [] st = "TECHNICAL_QA" ->
         << <<"A"," ","l","i","s","t"," ","i","s"," ","m","u","t","a","b","l","e",","," ","a"," ","t","u","p","l","e"," ","i","s"," ","n","o","t",".">>, <<"t","o","o"," ","s","h","o","r","t">>, <<"g","o","o","d","b","y","e">>,
            <<" "," ","I","t"," ","v","a","r","i","e","s"," ","w","i","t","h"," ","t","h","e"," ","i","n","p","u","t","."," ">>, <<" "," "," ","u","n","s","u","r","e"," "," "," ">> >>
    [] st = "FOLLOWUP" -> << <<"T","h","a","n","k","s"," ","a"," ","l","o","t">>, <<"e","x","i","t">>, <<" "," ","I"," ","e","n","j","o","y"," ","d","a","t","a","b","a","s","e","s","."," ">> >>
    [] st = "END" -> << <<"h","e","l","l","o">>, <<"e","x","i","t">> >>
    [] OTHER -> << <<"e","x","i","t">> >>

InputSet(st) == {UserInputs(st)[i] : i \in 1..Len(UserInputs(st))}
ReferenceInput(st) == UserInputs(st)[1]

\* -------------------------------------------------------- the service
ParseFails == Parsed(FALSE, NoGenData)
Raises == Reply(TRUE, ParseFails, FALSE, ParseFails)

\* a well-formed item number i, with or without a question_id
Item(i, difficulty, qid) ==
  GenItem(TRUE, Some(<<"topic ">> \o numeral(i)), Some(<<"question ">> \o numeral(i)),
          difficulty, qid)
FiveItems ==
  << Item(1, Some("easy"), None), Item(2, Some("medium"), None), Item(3, None, None),
     Item(4, Some("medium"), None), Item(5, Some("hard"), None) >>
\* a dict that fails validation: no "question", or a difficulty outside the Literal
NoQuestion == GenItem(TRUE, Some(<<"topic">>), None, Some("easy"), None)
BadDifficulty == GenItem(TRUE, Some(<<"topic">>), Some(<<"question">>), Some("expert"), None)
\* an item that is no dict
NoDict == GenItem(FALSE, None, None, None, None)

GenJson(items) == Reply(FALSE, Parsed(TRUE, GenData(TRUE, Some(items))), TRUE, ParseFails)
GenOk == GenJson(FiveItems)

\* the replies to the generator's request: the first one is well formed
GenReplies ==
  { GenOk,
    \* six valid items
    GenJson(FiveItems \o <<Item(6, Some("easy"), None)>>),
    \* three valid items among invalid ones
    GenJson(<<FiveItems[1], NoQuestion, FiveItems[2], BadDifficulty, FiveItems[5]>>),
    \* one valid item
    GenJson(<<FiveItems[2]>>),
    \* items that carry a question_id, twice the same
    GenJson(<< Item(1, Some("easy"), Some(<<"q","1">>)), Item(2, Some("medium"), Some(<<"q","1">>)),
               Item(3, Some("medium"), Some(<<>>)), Item(4, Some("medium"), Some(<<"q","4">>)),
               Item(5, Some("hard"), Some(<<"q","5">>)) >>),
    \* no valid item
    GenJson(<<NoQuestion>>),
    GenJson(<<>>),
    \* JSON wrapped in prose
    Reply(FALSE, ParseFails, TRUE, Parsed(TRUE, GenData(TRUE, Some(FiveItems)))),
    \* a dict without a list under "items"; JSON that is no dict; no JSON
    Reply(FALSE, Parsed(TRUE, GenData(TRUE, None)), TRUE, ParseFails),
    Reply(FALSE, Parsed(TRUE, GenData(FALSE, None)), FALSE, ParseFails),
    Reply(FALSE, ParseFails, TRUE, ParseFails),
    Reply(FALSE, ParseFails, FALSE, ParseFails),
    \* an item that is no dict; an exception
    GenJson(<<FiveItems[1], NoDict>>),
    Raises }

\* the replies that make an attempt of the generator raise
RaisingReplies == {Raises, GenJson(<<FiveItems[1], NoDict>>)}

\* n well-formed replies
WellFormed(reply, n) == <<>> \o [i \in 1..n |-> reply]

\* the replies the service has for the calls of one generation, one more
\* than the attempts allowed: any reply to a call, after raising replies
\* only, and well-formed ones from then on
GenRuns ==
  {<<a>> \o WellFormed(GenOk, MaxAttempts) : a \in GenReplies}
    \cup {<<a, b>> \o WellFormed(GenOk, MaxAttempts - 1) :
            a \in RaisingReplies, b \in GenReplies}
    \cup {<<a, b, c>> \o WellFormed(GenOk, MaxAttempts - 2) :
            a \in RaisingReplies, b \in RaisingReplies, c \in GenReplies}

ScoreParseFails == Parsed(FALSE, DEFAULT_SCORE_DATA)
ScoreRaises == Reply(TRUE, ScoreParseFails, FALSE, ScoreParseFails)
SvcReasoning == Some(<<"Correct and to the point.">>)
SvcStrengths == Some(<< <<"accurate">>, <<"concise">> >>)
SvcImprovements == Some(<< <<"give an example">> >>)
ScoreDict(score) == ScoreData(TRUE, score, SvcReasoning, SvcStrengths, SvcImprovements, TRUE)
ScoreJson(data) == Reply(FALSE, Parsed(TRUE, data), TRUE, ScoreParseFails)
ScoreOk == ScoreJson(ScoreDict(Some(JsonNum("int", 8, 1))))

\* the replies to the scorer's request: the first one is well formed
ScoreReplies ==
  { ScoreOk,
    \* scores at and outside the ends of 0..10
    ScoreJson(ScoreDict(Some(JsonNum("int", 0, 1)))),
    ScoreJson(ScoreDict(Some(JsonNum("int", 10, 1)))),
    ScoreJson(ScoreDict(Some(JsonNum("int", 12, 1)))),
    ScoreJson(ScoreDict(Some(JsonNum("int", 0 - 3, 1)))),
    \* floats: 7.5, 6.0, 12.5, -0.5
    ScoreJson(ScoreDict(Some(JsonNum("float", 75, 10)))),
    ScoreJson(ScoreDict(Some(JsonNum("float", 6, 1)))),
    ScoreJson(ScoreDict(Some(JsonNum("float", 125, 10)))),
    ScoreJson(ScoreDict(Some(JsonNum("float", 0 - 5, 10)))),
    \* a score that is no number; no score
    ScoreJson(ScoreDict(Some(JsonNum("str", 8, 1)))),
    ScoreJson(ScoreDict(Some(JsonNum("null", 0, 1)))),
    ScoreJson(ScoreDict(None)),
    \* no reasoning, strengths, improvements; one of them of the wrong type
    ScoreJson(ScoreData(TRUE, Some(JsonNum("int", 4, 1)), None, None, None, TRUE)),
    ScoreJson(ScoreData(TRUE, Some(JsonNum("int", 9, 1)), SvcReasoning, None, None, FALSE)),
    \* JSON that is no dict; JSON wrapped in prose; no JSON
    ScoreJson(ScoreData(FALSE, None, None, None, None, TRUE)),
    Reply(FALSE, ScoreParseFails, TRUE, Parsed(TRUE, ScoreDict(Some(JsonNum("int", 6, 1))))),
    Reply(FALSE, ScoreParseFails, TRUE, ScoreParseFails),
    Reply(FALSE, ScoreParseFails, FALSE, ScoreParseFails),
    \* an exception
    ScoreRaises }

\* the replies the service has for the calls of one scoring: any reply to
\* the first call, a well-formed one to every further call
ScoreRuns == {<<r>> \o WellFormed(ScoreOk, MaxAttempts - 1) : r \in ScoreReplies}

\* ------------------------------------------------------------- state
VARIABLES
  candidate,            \* st.session_state.candidate
  state,                \* st.session_state.state
  history,              \* st.session_state.history
  questions_generated,  \* st.session_state.questions_generated
  generated_questions,  \* st.session_state.generated_questions
  uuid,                 \* the uuid tokens drawn so far
  store,                \* the lines of DATA_FILE
  clock,                \* datetime.now(), counted in save clicks
  session,              \* the number of the session (history variable)
  deviations,           \* steps off the reference run so far (history variable)
  ev,                   \* the last user action and what it consumed (history variable)
  call,                 \* the last call made in a pure function's own specification
  peer                  \* a second browser session: its st.session_state and both input logs

vars == <<candidate, state, history, questions_generated, generated_questions, uuid,
          store, clock, session, deviations, ev, call, peer>>

Session ==
  SessionState(candidate, state, history, questions_generated, generated_questions, uuid)

IsSession(ss) ==
  /\ candidate = ss.candidate
  /\ state = ss.state
  /\ history = ss.history
  /\ questions_generated = ss.questions_generated
  /\ generated_questions = ss.generated_questions
  /\ uuid = ss.uuid

SetSession(ss) ==
  /\ candidate' = ss.candidate
  /\ state' = ss.state
  /\ history' = ss.history
  /\ questions_generated' = ss.questions_generated
  /\ generated_questions' = ss.generated_questions
  /\ uuid' = ss.uuid

\* the record of a user action: its kind, the text typed, the session before
\* it, the handler's return value, and the replies the generator and the
\* scorer consumed with the number of service calls each made
Event(kind, prompt, pre, ret, gen_run, gen_calls, score_run, score_calls) ==
  [ kind |-> kind, prompt |-> prompt, pre |-> pre, ret |-> ret,
    gen_run |-> gen_run, gen_calls |-> gen_calls,
    score_run |-> score_run, score_calls |-> score_calls ]

NoCall == [fn |-> "none", n |-> 0]

NoPeer == [ss |-> initialize_session(0), log |-> << <<>>, <<>> >>]

Init ==
  /\ IsSession(initialize_session(0))
  /\ store = <<>>
  /\ clock = 0
  /\ session = 1
  /\ deviations = 0
  /\ ev = Event("start", <<>>, initialize_session(0), FALSE, <<>>, 0, <<>>, 0)
  /\ call = NoCall
  /\ peer = NoPeer

RunCost(run, wellformed) == IF \A i \in 1..Len(run) : run[i] = wellformed THEN 0 ELSE 1

\* a user message typed at the chat input, handled to the end of the reruns
\* it starts
Turn(kind, prompt, score_run, gen_run, r) ==
  LET forward == \/ r.ss.state.step # state.step
                 \/ r.ss.state.current_question_index # state.current_question_index
      used_score == take(score_run, r.score_calls)
      used_gen == take(gen_run, r.gen_calls)
      cost == (IF forward /\ (prompt = ReferenceInput(state.step) \/ detect_exit(prompt))
               THEN 0 ELSE 1)
              + RunCost(used_score, ScoreOk) + RunCost(used_gen, GenOk)
  IN  /\ deviations + cost <= MaxDeviations
      /\ SetSession(r.ss)
      /\ deviations' = deviations + cost
      /\ ev' = Event(kind, prompt, Session, r.ret, used_gen, r.gen_calls, used_score, r.score_calls)
      /\ UNCHANGED <<store, clock, session, call, peer>>

Message(kind, prompt, score_run, gen_run) ==
  Turn(kind, prompt, score_run, gen_run, run_script(Session, prompt, score_run, gen_run))

\* the texts and the reply runs the remaining budget allows
Inputs ==
  IF deviations < MaxDeviations THEN InputSet(state.step)
  ELSE {p \in InputSet(state.step) : p = ReferenceInput(state.step) \/ detect_exit(p)}

Affordable(runs, wellformed) ==
  {run \in runs : deviations + RunCost(run, wellformed) <= MaxDeviations}

\* a message with an exit keyword, at any step
ExitTurn ==
  \E prompt \in Inputs :
    /\ detect_exit(prompt)
    /\ Message("exit", prompt, <<>>, <<>>)

\* the generator's reply runs after an intake input handled as given: none
\* unless the input completes the intake
IntakeRuns(handled) ==
  IF handled.ss.state.step = "GENERATE_QA" /\ ~handled.ss.questions_generated
  THEN Affordable(GenRuns, GenOk)
  ELSE {<<>>}

\* a message at CONSENT or an INTAKE_* step; the input that completes the
\* intake starts the question generation
IntakeTurn ==
  /\ InIntakeSteps(state.step)
  /\ \E prompt \in Inputs :
       /\ ~detect_exit(prompt)
       /\ \E gen_run \in IntakeRuns(input_handling(Session, prompt, <<>>)) :
            Message("intake", prompt, <<>>, gen_run)

\* a message at TECHNICAL_QA
TechnicalTurn ==
  /\ state.step = "TECHNICAL_QA"
  /\ \E prompt \in Inputs :
       /\ ~detect_exit(prompt)
       /\ \E score_run \in Affordable(ScoreRuns, ScoreOk) :
            Message("technical", prompt, score_run, <<>>)

\* a message at FOLLOWUP
FollowupTurn ==
  /\ state.step = "FOLLOWUP"
  /\ \E prompt \in Inputs :
       /\ ~detect_exit(prompt)
       /\ Message("followup", prompt, <<>>, <<>>)

\* a message after the session has ended
EndTurn ==
  /\ state.step = "END"
  /\ \E prompt \in Inputs :
       /\ ~detect_exit(prompt)
       /\ Message("end", prompt, <<>>, <<>>)

\* the button clicks so far: every save click advances the clock, every reset
\* starts a session
Clicks == clock + (session - 1)

\* a save button shown at every step, outside the end-of-session block
SaveClickAtAnyStep ==
  /\ Clicks < MaxClicks
  /\ \E written \in (IF deviations < MaxDeviations THEN BOOLEAN ELSE {TRUE}) :
       LET ss == script_rest(Session, <<>>).ss
           candidate_data == ss.candidate
       IN  /\ SetSession([ss EXCEPT !.history = bot_say(@, IF written THEN APP_TEXT.SAVED ELSE APP_TEXT.SAVE_ERROR)])
           /\ store' = IF written THEN save_candidate(store, candidate_data, clock) ELSE store
           /\ ev' = Event("save", <<>>, Session, written, <<>>, 0, <<>>, 0)
           /\ deviations' = IF written THEN deviations ELSE deviations + 1
  /\ clock' = clock + 1
  /\ UNCHANGED <<session, call, peer>>

\* a click on "Save Complete Assessment": the script runs without a prompt
\* up to the button, then saves; the write succeeds or raises
SaveClick ==
  /\ (IF state.step = "END" THEN TRUE ELSE state.exit_detected)
  /\ Clicks < MaxClicks
  /\ \E written \in (IF deviations < MaxDeviations THEN BOOLEAN ELSE {TRUE}) :
       LET ss == script_rest(Session, <<>>).ss
           candidate_data == ss.candidate
       IN  /\ SetSession([ss EXCEPT !.history = bot_say(@, IF written THEN APP_TEXT.SAVED ELSE APP_TEXT.SAVE_ERROR)])
           /\ store' = IF written THEN save_candidate(store, candidate_data, clock) ELSE store
           /\ ev' = Event("save", <<>>, Session, written, <<>>, 0, <<>>, 0)
           /\ deviations' = IF written THEN deviations ELSE deviations + 1
  /\ clock' = clock + 1
  /\ UNCHANGED <<session, call, peer>>

\* a click on "Reset Session" or "Start New Assessment": every key of
\* st.session_state is deleted and the rerun initializes a new session
ResetClick ==
  /\ Clicks < MaxClicks
  /\ deviations < MaxDeviations
  /\ SetSession(initialize_session(uuid))
  /\ session' = session + 1
  /\ deviations' = deviations + 1
  /\ ev' = Event("reset", <<>>, Session, FALSE, <<>>, 0, <<>>, 0)
  /\ UNCHANGED <<store, clock, call, peer>>

Next ==
  \/ ExitTurn
  \/ IntakeTurn
  \/ TechnicalTurn
  \/ FollowupTurn
  \/ EndTurn
  \/ SaveClick
  \/ ResetClick

Spec == Init /\ [][Next]_vars

\* where a statement of the input handling's try raises
FaultPoints == {"before_write", "after_write"}

\* a message whose handling raises an unexpected exception
FaultTurn ==
  /\ deviations < MaxDeviations
  /\ state.step # "END"
  /\ \E prompt \in InputSet(state.step), point \in FaultPoints :
       /\ ~detect_exit(prompt)
       /\ SetSession(script_rest(fault_handling(Session, prompt, point), <<>>).ss)
       /\ ev' = Event("fault", prompt, Session, FALSE, <<>>, 0, <<>>, 0)
  /\ deviations' = deviations + 1
  /\ UNCHANGED <<store, clock, session, call, peer>>

NextFault ==
  \/ Next
  \/ FaultTurn

SpecFault == Init /\ [][NextFault]_vars

\* a click on "Save Results" whose write fails part-way: save_candidate
\* raises, the except of the button says the error
TornSaveClick ==
  /\ (IF state.step = "END" THEN TRUE ELSE state.exit_detected)
  /\ Clicks < MaxClicks
  /\ deviations < MaxDeviations
  /\ LET ss == script_rest(Session, <<>>).ss
         candidate_data == ss.candidate
     IN  /\ SetSession([ss EXCEPT !.history = bot_say(@, APP_TEXT.SAVE_ERROR)])
         /\ store' = save_candidate_torn(store, candidate_data, clock)
         /\ ev' = Event("save", <<>>, Session, FALSE, <<>>, 0, <<>>, 0)
  /\ deviations' = deviations + 1
  /\ clock' = clock + 1
  /\ UNCHANGED <<session, call, peer>>

NextStore == \/ Next \/ TornSaveClick

SpecStore == Init /\ [][NextStore]_vars

\* ------------------------------------------------- two browser sessions
\* Streamlit keeps one st.session_state per browser session and binds it to
\* the script run of that session. The first session is the session
\* variables, the second is peer.ss; DATA_FILE and the time are the process's.
Tabs == {1, 2}

\* what a tab does: a message typed, or a click on the save button
TabEntry(kind, prompt) == [kind |-> kind, prompt |-> prompt]

\* the messages of a tab at a step: the reference input and the exit texts
TabInputs(st) ==
  {p \in InputSet(st) : IF p = ReferenceInput(st) THEN TRUE ELSE detect_exit(p)}

\* one script run on the st.session_state it is bound to, the service
\* answering well-formed
tab_run(ss, e) ==
  IF e.kind = "save"
  THEN [script_rest(ss, <<>>).ss EXCEPT !.history = bot_say(@, APP_TEXT.SAVED)]
  ELSE run_script(ss, e.prompt, WellFormed(ScoreOk, MaxAttempts),
                  WellFormed(GenOk, MaxAttempts + 1)).ss

\* the script runs when the Candidate is one object of the module, not of
\* st.session_state
tab_turn_one_candidate(tabs, t, e) ==
  [i \in 1..2 |-> IF i = t THEN tab_run(tabs[t], e)
                  ELSE [tabs[i] EXCEPT !.candidate = tab_run(tabs[t], e).candidate]]

\* the session states after the script run of tab t
tab_turn(tabs, t, e) == [tabs EXCEPT ![t] = tab_run(@, e)]

TabStates == <<Session, peer.ss>>

TabLogged ==  Len(peer.log[1]) + Len(peer.log[2])

TabActs(t, e, after) ==
  /\ SetSession(after[1])
  /\ peer' = [ss |-> after[2], log |-> [peer.log EXCEPT ![t] = Append(@, e)]]
  /\ ev' = Event(e.kind, e.prompt, TabStates[t], FALSE, <<>>, 0, <<>>, 0)

\* a message typed in tab t that moves its conversation on
TabMessage ==
  /\ TabLogged < MaxTabTurns
  /\ \E t \in Tabs :
       \E prompt \in TabInputs(TabStates[t].state.step) :
         LET e == TabEntry("message", prompt)
             after == tab_turn(TabStates, t, e)
         IN  /\ after[t].state # TabStates[t].state
             /\ TabActs(t, e, after)
  /\ UNCHANGED <<store, clock, session, deviations, call>>

\* a click on the save button in tab t
TabSave ==
  /\ TabLogged < MaxTabTurns
  /\ Len(store) < MaxClicks
  /\ \E t \in Tabs :
       LET e == TabEntry("save", <<>>)
           after == tab_turn(TabStates, t, e)
       IN  /\ (IF TabStates[t].state.step = "END" THEN TRUE
               ELSE TabStates[t].state.exit_detected)
           /\ TabActs(t, e, after)
           /\ store' = save_candidate(store, after[t].candidate, clock)
  /\ clock' = clock + 1
  /\ UNCHANGED <<session, deviations, call>>

NextTwo ==
  \/ TabMessage
  \/ TabSave

SpecTwo == Init /\ [][NextTwo]_vars

\* the state of a session that ran alone through the entries of log
RECURSIVE alone(_)
alone(log) ==
  IF log = <<>> THEN initialize_session(0)
  ELSE tab_run(alone(SubSeq(log, 1, Len(log) - 1)), log[Len(log)])


\* ------------------------------------------- next_step, called on its own
\* The candidates next_step is called on: every field unset, blank or set.
CandidateSet ==
  { [NewCandidate EXCEPT !.consent_given = consent, !.full_name = name, !.email = email,
                         !.phone = phone, !.years_experience = years,
                         !.desired_positions = positions, !.current_location = location,
                         !.tech_stack = tech] :
      consent \in BOOLEAN,
      name \in {None, Some(<<" ">>), Some(<<"J","a","n","e"," ","D","o","e">>)},
      email \in {None, Some(<<"j","a","n","e","@","x",".","c","o","m">>)},
      phone \in {None, Some(<<"+","1","2","3","4","5","6">>)},
      years \in {None, Some([n |-> 0, d |-> 1]), Some([n |-> 7, d |-> 2])},
      positions \in {<<>>, << <<"D","a","t","a"," ","S","c","i","e","n","t","i","s","t">> >>, << <<>> >>},
      location \in {None, Some(<<>>), Some(<<"B","e","r","l","i","n">>)},
      tech \in {<<>>, << <<"p","y","t","h","o","n">>, <<"s","q","l">> >>} }

\* The conversation states next_step is called with.
StateSet ==
  { [NewConversationState(st) EXCEPT !.exit_detected = exited,
                                     !.current_question_index = idx] :
      st \in {"CONSENT", "END"}, exited \in BOOLEAN, idx \in {0, 3} }

InitNS ==
  /\ candidate \in CandidateSet
  /\ state = NewConversationState("CONSENT")
  /\ history = <<>>
  /\ questions_generated = FALSE
  /\ generated_questions = <<>>
  /\ uuid = 0
  /\ store = <<>>
  /\ clock = 0
  /\ session = 1
  /\ deviations = 0
  /\ ev = Event("start", <<>>, initialize_session(0), FALSE, <<>>, 0, <<>>, 0)
  /\ call = NoCall
  /\ peer = NoPeer

\* the record of a call of next_step: the arguments, the returned step, the
\* arguments as the call leaves them, and the call before it
NextStepCalled(c, s, r, before) ==
  [ fn |-> "next_step", n |-> before.n + 1, candidate |-> c, state |-> s, ret |-> r.ret,
    candidate_after |-> r.candidate, state_after |-> r.state,
    before |-> IF before.n = 0 THEN None ELSE Some([ret |-> before.ret, state |-> before.state]) ]

\* next_step(candidate, s) for the session's candidate and a state s
NextStepCall ==
  /\ call.n < MaxCalls
  /\ \E s \in StateSet :
       /\ call' = NextStepCalled(candidate, s, next_step(candidate, s), call)
       /\ candidate' = next_step(candidate, s).candidate
       /\ state' = next_step(candidate, s).state
  /\ UNCHANGED <<history, questions_generated, generated_questions, uuid, store, clock,
                 session, deviations, ev, peer>>

NextNS == NextStepCall

SpecNS == InitNS /\ [][NextNS]_vars

\* ------------------------------- the scorer's functions, called on their own
\* an answer of n letters with pad blanks on either side
letters(ch, n) == <<>> \o [i \in 1..n |-> ch]

AnswerText(n, pad) == letters(" ", pad) \o letters("a", n) \o letters(" ", pad)

\* the difficulties of a QAQuestion, and a string that is none of them
Difficulties == {"easy", "medium", "hard", "expert"}

\* the calls of simple_score_answer: every length up to the bound
SimpleScoreArgs ==
  { [fn |-> "simple_score_answer", n |-> 0, chars |-> n, pad |-> pad,
     difficulty |-> difficulty, ret |-> None] :
      n \in 0..MaxAnswerChars, pad \in 0..1, difficulty \in Difficulties }

\* the mappings of up to n AnswerScore values with scores in 0..10, keyed q1, q2, ...
RECURSIVE ScoreDicts(_)
ScoreDicts(n) ==
  IF n = 0 THEN {<<>>}
  ELSE LET shorter == ScoreDicts(n - 1)
       IN  shorter \cup
             { Append(d, << <<"q">> \o numeral(n), AnswerScore(s, <<>>, <<>>, <<>>) >>) :
                 d \in {x \in shorter : Len(x) = n - 1}, s \in 0..10 }

OverallScoreArgs ==
  { [fn |-> "calculate_overall_score", n |-> 0, scores |-> d, ret |-> None] :
      d \in ScoreDicts(MaxScores) }

InitFn ==
  /\ IsSession(initialize_session(0))
  /\ store = <<>>
  /\ clock = 0
  /\ session = 1
  /\ deviations = 0
  /\ ev = Event("start", <<>>, initialize_session(0), FALSE, <<>>, 0, <<>>, 0)
  /\ call \in SimpleScoreArgs \cup OverallScoreArgs
  /\ peer = NoPeer

FnFrame ==
  UNCHANGED <<candidate, state, history, questions_generated, generated_questions, uuid,
              store, clock, session, deviations, ev, peer>>

\* simple_score_answer(answer, "technical", difficulty)
SimpleScoreCall ==
  /\ call.fn = "simple_score_answer"
  /\ call.n = 0
  /\ call' = [call EXCEPT !.n = 1,
                          !.ret = Some(simple_score_answer(AnswerText(call.chars, call.pad),
                                                           <<"technical">>, call.difficulty))]
  /\ FnFrame

\* calculate_overall_score(scores)
OverallScoreCall ==
  /\ call.fn = "calculate_overall_score"
  /\ call.n = 0
  /\ call' = [call EXCEPT !.n = 1, !.ret = Some(calculate_overall_score(call.scores))]
  /\ FnFrame

NextFn ==
  \/ SimpleScoreCall
  \/ OverallScoreCall

SpecFn == InitFn /\ [][NextFn]_vars

\* ------------------------------------------------------------ properties
\* C1: a message in which detect_exit finds a keyword, typed at any step,
\* leaves exit_detected set and the step at END; on that turn the candidate
\* and current_question_index do not change, no service is called and no
\* guidance message of a validation is said.
C1_ExitDominates ==
  (ev.kind \in {"exit", "intake", "technical", "followup", "end"} /\ detect_exit(ev.prompt)) =>
    /\ state.exit_detected
    /\ state.step = "END"
    /\ candidate = ev.pre.candidate
    /\ state.current_question_index = ev.pre.state.current_question_index
    /\ ev.score_calls = 0
    /\ ev.gen_calls = 0
    /\ \A i \in (Len(ev.pre.history) + 1)..Len(history) :
         /\ history[i].content \notin GUIDANCE \cup {APP_TEXT.GUIDE_DETAIL}
         /\ history[i].content[1] # GUIDE_EMAIL_MEANT(<<>>)[1]

\* an exit request in the middle of the technical questions
C1_Witness ==
  /\ ev.kind = "exit"
  /\ ev.pre.state.step = "TECHNICAL_QA"
  /\ ev.pre.state.current_question_index = 2
  /\ Len(candidate.answer_scores) = 2
  /\ state.step = "END"

\* C2: every generation of the session leaves exactly K questions, whatever
\* the service replied.
C2_ExactlyK == ev.gen_calls > 0 => Len(generated_questions) = K

\* C3: every AnswerScore stored in answer_scores has an integer score from
\* 0 to 10.
C3_ScoreInRange ==
  \A i \in 1..Len(candidate.answer_scores) : candidate.answer_scores[i][2].score \in 0..10

\* the service scored an answer 12 and 10 is stored
C3_Witness ==
  /\ ev.kind = "technical"
  /\ ev.score_calls = 1
  /\ ev.score_run[1] = ScoreJson(ScoreDict(Some(JsonNum("int", 12, 1))))
  /\ Len(candidate.answer_scores) = Len(ev.pre.candidate.answer_scores) + 1
  /\ candidate.answer_scores[Len(candidate.answer_scores)][2].score = 10

\* C4: an intake input that apply_answer_to_step rejects leaves the
\* candidate and the conversation state as they were and adds to the
\* history the user's message and one assistant message, a guidance; for an
\* email with an '@' the guidance is the "Did you mean" suggestion.
C4_RejectionFrame ==
  (ev.kind = "intake" /\ ~ev.ret) =>
    LET said == history[Len(history)]
    IN  /\ candidate = ev.pre.candidate
        /\ state = ev.pre.state
        /\ Len(history) = Len(ev.pre.history) + 2
        /\ SubSeq(history, 1, Len(ev.pre.history)) = ev.pre.history
        /\ history[Len(history) - 1] = [role |-> "user", content |-> ev.prompt]
        /\ said.role = "assistant"
        /\ IF ev.pre.state.step = "INTAKE_EMAIL" /\ contains(ev.prompt, <<"@">>)
           THEN /\ said.content[1] = GUIDE_EMAIL_MEANT(<<>>)[1]
                /\ IsNone(candidate.email)
           ELSE said.content \in GUIDANCE

\* an email with an '@' that fails the pattern was rejected
C4_Witness ==
  /\ ev.kind = "intake"
  /\ ~ev.ret
  /\ ev.pre.state.step = "INTAKE_EMAIL"
  /\ ev.prompt = <<"j","a","n","e","@","x">>
  /\ state.step = "INTAKE_EMAIL"

\* C5: next_step returns CONSENT without consent; with consent, the step of
\* the first field, in the order full_name, email, phone, years_experience,
\* desired_positions, current_location, tech_stack, that is None, an empty
\* list or a blank string; GENERATE_QA when none is.  Years of 0 are set.
C5_NextStepReference ==
  call.fn = "next_step" =>
    LET c == call.candidate
        blank(v) == IsNone(v) \/ \A i \in 1..Len(Val(v)) : Val(v)[i] \in WS
    IN  call.ret =
          IF ~c.consent_given THEN "CONSENT"
          ELSE IF blank(c.full_name) THEN "INTAKE_NAME"
          ELSE IF blank(c.email) THEN "INTAKE_EMAIL"
          ELSE IF blank(c.phone) THEN "INTAKE_PHONE"
          ELSE IF c.years_experience = None THEN "INTAKE_YOE"
          ELSE IF c.desired_positions = <<>> THEN "INTAKE_POSITION"
          ELSE IF blank(c.current_location) THEN "INTAKE_LOCATION"
          ELSE IF c.tech_stack = <<>> THEN "INTAKE_TECH"
          ELSE "GENERATE_QA"

\* a candidate with every field set and 0 years of experience
C5_Witness ==
  /\ call.fn = "next_step"
  /\ call.candidate.consent_given
  /\ call.candidate.years_experience = Some([n |-> 0, d |-> 1])
  /\ call.ret = "GENERATE_QA"

C7_Scenario ==
  LET typed == SelectSeq(history, LAMBDA m : m.role = "user")
      n == Len(typed)
      intake == << <<"I"," ","a","g","r","e","e">>, <<"J","a","n","e"," ","D","o","e">>, <<"j","a","n","e","@","x",".","c","o","m">>, <<"+","1","2","3","4","5","6">>, <<"4">>,
                   <<"B","a","c","k","e","n","d"," ","E","n","g","i","n","e","e","r">>, <<"B","e","r","l","i","n">>, <<"p","y","t","h","o","n",","," ","s","q","l">> >>
      after == << "INTAKE_NAME", "INTAKE_EMAIL", "INTAKE_PHONE", "INTAKE_YOE",
                  "INTAKE_POSITION", "INTAKE_LOCATION", "INTAKE_TECH", "TECHNICAL_QA" >>
      answered == IF n - Len(intake) < K THEN n - Len(intake) ELSE K
      follows ==
        /\ session = 1
        /\ n >= 1
        /\ ev.kind \in {"exit", "intake", "technical", "followup"}
        /\ \A i \in 1..n :
             IF i <= Len(intake) THEN typed[i].content = intake[i]
             ELSE IF i <= Len(intake) + K
             THEN Len(strip(typed[i].content)) >= MinAnswerLen /\ ~detect_exit(typed[i].content)
             ELSE i = Len(intake) + K + 1 /\ typed[i].content = <<"e","x","i","t">>
  IN  follows =>
        /\ n <= Len(intake) => state.step = after[n]
        /\ n = Len(intake) => ev.gen_calls = 1
        /\ n >= Len(intake) =>
             /\ candidate.tech_stack = << <<"p","y","t","h","o","n">>, <<"s","q","l">> >>
             /\ Len(generated_questions) = K
             /\ Len(candidate.answer_scores) = answered
        /\ n = Len(intake) + K =>
             /\ state.step = "FOLLOWUP"
             /\ ~IsNone(candidate.overall_score)
             /\ K * Val(candidate.overall_score) = 10 * total_score(candidate.answer_scores)
        /\ n = Len(intake) + K + 1 => state.step = "END"

\* C8: the first session of a run leaves at most one record in the store,
\* whatever the user does after the session has ended; a record has every
\* field of the candidate and a submission time.
C8_PersistedOnce ==
  session = 1 =>
    /\ Len(store) <= 1
    /\ \A i \in 1..Len(store) : DOMAIN store[i] = DOMAIN NewCandidate \cup {"submitted_at"}

\* C9: while scoring an answer, a service call that raises on an attempt
\* before the last is followed by another attempt, and there are no more
\* than MaxAttempts.
C9_ScorerRetries ==
  (ev.kind = "technical" /\ ev.score_calls > 0) =>
    /\ ev.score_calls <= MaxAttempts
    /\ \A n \in 1..ev.score_calls :
         (ev.score_run[n].raises /\ n < MaxAttempts) => ev.score_calls > n

\* C10: a generation calls the service MaxAttempts times at most and never
\* leaves the step at GENERATE_QA; when every attempt fails, the session has
\* K questions, each with a topic, a question and a difficulty of easy,
\* medium or hard, the candidate's technical_questions are not empty and
\* the step is TECHNICAL_QA.
C10_GracefulDegradation ==
  (ev.kind = "intake" /\ ev.gen_calls > 0) =>
    /\ ev.gen_calls <= MaxAttempts
    /\ state.step # "GENERATE_QA"
    /\ (\A n \in 1..ev.gen_calls : ev.gen_run[n] \in RaisingReplies) =>
         /\ ev.gen_calls = MaxAttempts
         /\ Len(generated_questions) = K
         /\ \A i \in 1..Len(generated_questions) :
              /\ Len(generated_questions[i].topic) > 0
              /\ Len(generated_questions[i].question) > 0
              /\ generated_questions[i].difficulty \in {"easy", "medium", "hard"}
         /\ Len(candidate.technical_questions) > 0
         /\ state.step = "TECHNICAL_QA"

\* the service raised on the three attempts of a generation for two
\* technologies
C10_Witness ==
  /\ ev.kind = "intake"
  /\ ev.gen_calls = MaxAttempts
  /\ \A n \in 1..MaxAttempts : ev.gen_run[n] = Raises
  /\ Len(ev.pre.candidate.tech_stack) = 0
  /\ Len(candidate.tech_stack) = 2
  /\ state.step = "TECHNICAL_QA"

\* C11: whenever one of full_name, email, phone, years_experience,
\* desired_positions, current_location, tech_stack is set, or the step is an
\* INTAKE_* step, GENERATE_QA, TECHNICAL_QA or FOLLOWUP, consent_given is
\* true; while consent_given is false the assistant has asked no intake
\* question other than the consent question.
C11_ConsentGate ==
  LET c == candidate
      some_field_set ==
        \/ ~IsNone(c.full_name) \/ ~IsNone(c.email) \/ ~IsNone(c.phone)
        \/ ~IsNone(c.years_experience) \/ ~IsNone(c.current_location)
        \/ c.desired_positions # <<>> \/ c.tech_stack # <<>>
      past_consent ==
        state.step \in {"INTAKE_NAME", "INTAKE_EMAIL", "INTAKE_PHONE", "INTAKE_YOE",
                        "INTAKE_POSITION", "INTAKE_LOCATION", "INTAKE_TECH",
                        "GENERATE_QA", "TECHNICAL_QA", "FOLLOWUP"}
      intake_prompts ==
        {get_next_question(INTAKE_STEPS[i]) : i \in 2..Len(INTAKE_STEPS)}
  IN  /\ (some_field_set \/ past_consent) => c.consent_given
      /\ ~c.consent_given =>
            \A i \in 1..Len(history) :
              history[i].role = "assistant" => history[i].content \notin intake_prompts

\* a reply at CONSENT without a consent word was refused, then "I agree"
\* was accepted and the name question asked
C11_Witness ==
  /\ ev.kind = "intake"
  /\ ev.pre.state.step = "CONSENT"
  /\ ~ev.pre.candidate.consent_given
  /\ Len(ev.pre.history) > 1
  /\ candidate.consent_given
  /\ state.step = "INTAKE_NAME"
  /\ history[Len(history)].content = get_next_question("INTAKE_NAME")

\* C12: the keys of technical_answers and the keys of answer_scores are ids
\* of technical_questions; a message or a save click leaves in both dicts
\* every key they had before it.
C12_KeysWithinQuestions ==
  LET Keys(d) == {d[i][1] : i \in 1..Len(d)}
      ids == {candidate.technical_questions[i].question_id :
                i \in 1..Len(candidate.technical_questions)}
  IN  /\ Keys(candidate.technical_answers) \subseteq ids
      /\ Keys(candidate.answer_scores) \subseteq ids
      /\ ev.kind \in {"exit", "intake", "technical", "followup", "end", "save"} =>
           /\ Keys(ev.pre.candidate.technical_answers) \subseteq Keys(candidate.technical_answers)
           /\ Keys(ev.pre.candidate.answer_scores) \subseteq Keys(candidate.answer_scores)

\* the third question was answered: three keys in each dict
C12_Witness ==
  /\ ev.kind = "technical"
  /\ ev.ret
  /\ Len(ev.pre.candidate.technical_answers) = 2
  /\ Len(candidate.technical_answers) = 3
  /\ Len(candidate.answer_scores) = 3
  /\ Len(candidate.technical_questions) = K

\* C13: overall_score is None while a generated question is unanswered; it
\* is set on the message that answers the last question, to the mean of the
\* recorded scores to the nearest tenth, and no later message or click of
\* the session changes it.
C13_OverallScoreOnce ==
  LET overall == candidate.overall_score
      before == ev.pre.candidate.overall_score
      n == Len(candidate.answer_scores)
      last_answered ==
        /\ ev.kind = "technical"
        /\ ev.ret
        /\ ev.pre.state.current_question_index = Len(generated_questions) - 1
        /\ state.current_question_index = Len(generated_questions)
  IN  /\ (~questions_generated \/ state.current_question_index < Len(generated_questions))
           => IsNone(overall)
      /\ ev.kind \in {"exit", "intake", "technical", "followup", "end", "save"} =>
           /\ ~IsNone(before) => overall = before
           /\ (IsNone(before) /\ ~IsNone(overall)) => last_answered
           /\ last_answered =>
                /\ IsNone(before)
                /\ ~IsNone(overall)
                /\ n > 0
                /\ 2 * (Val(overall) * n - 10 * total_score(candidate.answer_scores)) \in (0 - n)..n

\* the last of K questions was answered and the overall score set; the
\* scores are not all the same
C13_Witness ==
  /\ ev.kind = "technical"
  /\ ev.pre.state.current_question_index = K - 1
  /\ IsNone(ev.pre.candidate.overall_score)
  /\ ~IsNone(candidate.overall_score)
  /\ Len(candidate.answer_scores) = K
  /\ \E i \in 1..K : candidate.answer_scores[i][2].score # candidate.answer_scores[1][2].score
  /\ state.step = "FOLLOWUP"

\* C14: a session starts with exit_detected false, and no message or click
\* within a session makes exit_detected false once it is true.
C14_ExitSticky ==
  /\ ~state.exit_detected
  /\ [][/\ session' # session => ~state'.exit_detected
        /\ (session' = session /\ state.exit_detected) => state'.exit_detected]_vars

\* a message typed after an exit request: the flag is still set
C14_Witness ==
  /\ ev.kind = "end"
  /\ ev.pre.state.exit_detected
  /\ Len(history) > Len(ev.pre.history)
  /\ state.exit_detected
  /\ state.step = "END"

\* C15: the generator is invoked on the message that completes the intake
\* (consent and the seven fields set, the step coming from an intake step),
\* on no other message or click, and on no message of a session that
\* already has generated questions; once a session has them, its step is
\* TECHNICAL_QA, FOLLOWUP or END, so that no later message invokes it again.
C15_GeneratesOnce ==
  LET complete(c) ==
        /\ c.consent_given
        /\ \A i \in 1..Len(INTAKE_ORDER) : ~FieldIsEmpty(c, field_mapping(INTAKE_ORDER[i]))
      generated == ev.gen_calls > 0
  IN  /\ generated =>
           /\ ev.kind = "intake"
           /\ ev.ret
           /\ InIntakeSteps(ev.pre.state.step)
           /\ ~complete(ev.pre.candidate)
           /\ complete(candidate)
           /\ ~ev.pre.questions_generated
           /\ Len(ev.pre.generated_questions) = 0
      /\ (ev.kind = "intake" /\ ~complete(ev.pre.candidate) /\ complete(candidate)) => generated
      /\ (questions_generated \/ Len(generated_questions) > 0) =>
           state.step \in {"TECHNICAL_QA", "FOLLOWUP", "END"}

\* the message that sets tech_stack completed the intake: the generator ran
\* in that turn, with one service call, and the session has its K questions
C15_Witness ==
  /\ ev.kind = "intake"
  /\ ev.pre.state.step = "INTAKE_TECH"
  /\ ~ev.pre.questions_generated
  /\ ev.gen_calls = 1
  /\ questions_generated
  /\ Len(generated_questions) = K
  /\ state.step = "TECHNICAL_QA"

\* C16: a message whose handling raises an unexpected exception leaves the
\* step, current_question_index and every field of the candidate as they
\* were before it, and the assistant says the generic error message.
C16_FaultIsNoOp ==
  ev.kind = "fault" =>
    /\ state.step = ev.pre.state.step
    /\ state.current_question_index = ev.pre.state.current_question_index
    /\ candidate = ev.pre.candidate
    /\ history[Len(history)] = [role |-> "assistant", content |-> APP_TEXT.WENT_WRONG]

\* C17: the record store is append-only. A save that returns appends exactly
\* one record and leaves the earlier lines unchanged and in place; a save that
\* fails is reported to the caller and leaves the earlier lines unchanged; in
\* both cases load_candidates returns every record appended so far, in append
\* order; no other step touches the store.
C17_AppendOnly ==
  [][IF clock' # clock
     THEN /\ SubSeq(store', 1, Len(store)) = store
          /\ IF ev'.ret
             THEN /\ Len(store') = Len(store) + 1
                  /\ load_candidates(store') =
                       Append(load_candidates(store), store'[Len(store')])
                  /\ history'[Len(history')] = [role |-> "assistant", content |-> APP_TEXT.SAVED]
             ELSE /\ load_candidates(store') = load_candidates(store)
                  /\ history'[Len(history')] = [role |-> "assistant", content |-> APP_TEXT.SAVE_ERROR]
     ELSE store' = store]_vars

C19_CursorAdvances ==
  LET idx == ev.pre.state.current_question_index
      accepted == ev.kind = "technical" /\ Len(strip(ev.prompt)) >= MinAnswerLen
      qid == ev.pre.generated_questions[idx + 1].question_id
      answers == candidate.technical_answers
      scores == candidate.answer_scores
  IN  ev.kind \in {"exit", "intake", "technical", "followup", "end", "save"} =>
        /\ (state.step = "TECHNICAL_QA" /\ ev.pre.state.step # "TECHNICAL_QA")
             => state.current_question_index = 0
        /\ IF accepted
           THEN /\ ev.pre.state.step = "TECHNICAL_QA"
                /\ ~detect_exit(ev.prompt)
                /\ state.current_question_index = idx + 1
                /\ \E i \in 1..Len(answers) : answers[i] = <<qid, strip(ev.prompt)>>
                /\ \E i \in 1..Len(scores) :
                     /\ scores[i][1] = qid
                     /\ scores[i][2].score \in 0..10
           ELSE state.current_question_index = idx

\* the third question was answered with a text that has blanks around it
C19_Witness ==
  /\ ev.kind = "technical"
  /\ ev.prompt # strip(ev.prompt)
  /\ Len(strip(ev.prompt)) >= MinAnswerLen
  /\ ev.pre.state.current_question_index = 2
  /\ state.current_question_index = 3
  /\ state.step = "TECHNICAL_QA"

\* C20: the step goes from TECHNICAL_QA to FOLLOWUP exactly on the accepted
\* answer that brings the cursor to K. An accepted answer that leaves the
\* cursor below K keeps the step and says the next question; FOLLOWUP is
\* never entered from TECHNICAL_QA with fewer than K scores recorded.
C20_FollowupAtK ==
  LET accepted == ev.kind = "technical" /\ Len(strip(ev.prompt)) >= MinAnswerLen
      idx == state.current_question_index
  IN  (/\ ev.kind \in {"exit", "intake", "technical", "followup", "end", "save"}
       /\ ev.pre.state.step = "TECHNICAL_QA") =>
        /\ state.step = "FOLLOWUP" <=> (accepted /\ idx = K)
        /\ state.step = "FOLLOWUP" => Len(candidate.answer_scores) >= K
        /\ (accepted /\ idx < K) =>
             /\ state.step = "TECHNICAL_QA"
             /\ idx < Len(generated_questions)
             /\ history[Len(history)] =
                  [role |-> "assistant",
                   content |-> QUESTION_N(idx + 1, generated_questions[idx + 1])]

\* C21: the question ids of technical_questions are pairwise distinct, also
\* when the service supplies them, so the answers accepted so far have as
\* many entries in technical_answers and in answer_scores as there are.
C21_DistinctQuestionIds ==
  LET qs == candidate.technical_questions
  IN  /\ \A i \in 1..Len(qs) : \A j \in 1..Len(qs) :
           qs[i].question_id = qs[j].question_id => i = j
      /\ questions_generated =>
           /\ Len(candidate.technical_answers) = state.current_question_index
           /\ Len(candidate.answer_scores) = state.current_question_index

\* C22: a technical answer of fewer than MinAnswerLen characters after
\* trimming is rejected before any scoring: no call of the scorer's service,
\* the candidate (technical_answers and answer_scores with it) and the
\* conversation state (cursor and step with it) are as before, and the
\* history gains the user's message and one guidance message.
C22_ShortAnswerRejected ==
  (ev.kind = "technical" /\ Len(strip(ev.prompt)) < MinAnswerLen) =>
    /\ ~ev.ret
    /\ ev.score_calls = 0
    /\ ev.gen_calls = 0
    /\ candidate = ev.pre.candidate
    /\ state = ev.pre.state
    /\ generated_questions = ev.pre.generated_questions
    /\ history = ev.pre.history \o
         << [role |-> "user", content |-> ev.prompt],
            [role |-> "assistant", content |-> APP_TEXT.GUIDE_DETAIL] >>

\* the third question was answered with blanks around six characters
C22_Witness ==
  /\ ev.kind = "technical"
  /\ Len(ev.prompt) >= MinAnswerLen
  /\ Len(strip(ev.prompt)) < MinAnswerLen
  /\ state.current_question_index = 2
  /\ Len(candidate.answer_scores) = 2

\* C23: at FOLLOWUP a message without exit keyword sets additional_comments
\* to the trimmed message and leaves every other field of the candidate and
\* the whole conversation state (step and cursor with it) as they were; the
\* step leaves FOLLOWUP only on a message with an exit keyword, to END.
C23_FollowupStays ==
  (/\ ev.kind \in {"exit", "intake", "technical", "followup", "end", "save"}
   /\ ev.pre.state.step = "FOLLOWUP") =>
    IF detect_exit(ev.prompt)
    THEN /\ ev.kind = "exit"
         /\ state.step = "END"
         /\ candidate = ev.pre.candidate
    ELSE /\ ev.kind = "followup"
         /\ state = ev.pre.state
         /\ candidate = [ev.pre.candidate EXCEPT !.additional_comments = Some(strip(ev.prompt))]
         /\ generated_questions = ev.pre.generated_questions

\* a comment typed with blanks around it, after all K questions were answered
C23_Witness ==
  /\ ev.kind = "followup"
  /\ ev.prompt # strip(ev.prompt)
  /\ state.step = "FOLLOWUP"
  /\ Len(candidate.answer_scores) = K
  /\ ~IsNone(candidate.overall_score)
  /\ candidate.additional_comments = Some(strip(ev.prompt))

\* C24: simple_score_answer is the reference step function of the trimmed
\* length and the difficulty: 3 below 20 characters, 5 below 50, 7 below
\* 150, else 8; one more for "easy" from 6 up, one less for "hard" up to 7.
\* The score lies in 2..9 and depends on nothing but the arguments.
C24_SimpleScoreReference ==
  (call.fn = "simple_score_answer" /\ call.n = 1) =>
    LET len == call.chars
        base == CASE len < 20 -> 3
                  [] len >= 20 /\ len < 50 -> 5
                  [] len >= 50 /\ len < 150 -> 7
                  [] OTHER -> 8
        up == IF call.difficulty = "easy" /\ base \in {7, 8} THEN 1 ELSE 0
        down == IF call.difficulty = "hard" /\ base \in {3, 5, 7} THEN 1 ELSE 0
        score == Val(call.ret).score
    IN  /\ score = base + up - down
        /\ score \in 2..9
        /\ \A pad \in 0..1 :
             simple_score_answer(AnswerText(len, pad), <<"other topic">>, call.difficulty).score
               = score

\* a hard question answered with 149 letters between blanks: 7 less 1
C24_Witness ==
  /\ call.fn = "simple_score_answer"
  /\ call.n = 1
  /\ call.chars = 149
  /\ call.pad = 1
  /\ call.difficulty = "hard"
  /\ Val(call.ret).score = 6

\* C25: calculate_overall_score is 0.0 for the empty mapping and otherwise
\* the mean of the score fields to the nearest tenth, within 0..10; the
\* scores 8, 6 give 7.0 and the scores 7, 8, 9 give 8.0.
C25_OverallScoreMean ==
  (call.fn = "calculate_overall_score" /\ call.n = 1) =>
    LET n == Len(call.scores)
        total == total_score(call.scores)
        tenths == Val(call.ret)
        Scores(d) == [i \in 1..Len(d) |-> d[i][2].score]
    IN  /\ tenths \in 0..100
        /\ n = 0 => tenths = 0
        /\ n > 0 => 2 * (tenths * n - 10 * total) \in (0 - n)..n
        /\ Scores(call.scores) = <<8, 6>> => tenths = 70
        /\ Scores(call.scores) = <<7, 8, 9>> => tenths = 80

\* four scores whose mean, 6.25, lies half-way between two tenths
C25_Witness ==
  /\ call.fn = "calculate_overall_score"
  /\ call.n = 1
  /\ Len(call.scores) = 4
  /\ total_score(call.scores) = 25
  /\ Val(call.ret) = 62

\* C26: at INTAKE_YOE the value is committed exactly when the input, its
\* commas read as decimal points, parses to a number from 0 to 50, both
\* ends included: "50" and "0" are accepted, "3,5" is accepted as 3.5,
\* "50.1", "-1" and "four" are rejected. years_experience, when set, lies
\* in [0, 50] in every state.
C26_YearsRange ==
  LET years == candidate.years_experience
      InRange(y) == 0 <= y.n /\ y.n <= 50 * y.d
  IN  /\ ~IsNone(years) => InRange(Val(years))
      /\ (ev.kind = "intake" /\ ev.pre.state.step = "INTAKE_YOE") =>
           LET parsed == parse_float(replace_comma(strip(ev.prompt)))
               valid == IF IsNone(parsed) THEN FALSE ELSE InRange(Val(parsed))
           IN  /\ ev.ret <=> valid
               /\ years = IF valid THEN parsed ELSE ev.pre.candidate.years_experience
               /\ ev.prompt = <<"5","0">> => years = Some([n |-> 50, d |-> 1])
               /\ ev.prompt = <<"0">> => years = Some([n |-> 0, d |-> 1])
               /\ ev.prompt = <<"3",",","5">> => years = Some([n |-> 35, d |-> 10])
               /\ ev.prompt \in {<<"5","0",".","1">>, <<"-","1">>, <<"f","o","u","r">>} =>
                    (~ev.ret /\ years = ev.pre.candidate.years_experience)

\* "50" was typed at INTAKE_YOE and the conversation moved on with 50 years
C26_Witness ==
  /\ ev.kind = "intake"
  /\ ev.pre.state.step = "INTAKE_YOE"
  /\ ev.prompt = <<"5","0">>
  /\ candidate.years_experience = Some([n |-> 50, d |-> 1])
  /\ state.step = "INTAKE_POSITION"

\* C27: the validation postconditions hold in every state. An email, once
\* set, is lowercase, has no whitespace, exactly one '@' and a '.' after it
\* with text on both sides; a phone, once set, has at least 6 characters,
\* all digits but for at most one '+', which is then the first character.
C27_ValidationPostconditions ==
  LET email == candidate.email
      phone == candidate.phone
      e == Val(email)
      p == Val(phone)
      At(s) == {i \in 1..Len(s) : s[i] = "@"}
  IN  /\ ~IsNone(email) =>
           /\ e = lower(e)
           /\ \A i \in 1..Len(e) : e[i] \notin WS
           /\ Cardinality(At(e)) = 1
           /\ \E i \in At(e) : \E j \in (i + 2)..(Len(e) - 1) : i > 1 /\ e[j] = "."
      /\ ~IsNone(phone) =>
           /\ Len(p) >= 6
           /\ \A i \in 1..Len(p) : p[i] \in DIGITS \cup {"+"}
           /\ \A i \in 2..Len(p) : p[i] # "+"

\* C28: an input at INTAKE_POSITION or INTAKE_TECH is accepted only if its
\* comma-separated tokens, trimmed and without the empty ones, are at least
\* one; an input made of commas and blanks only is rejected with the step's
\* guidance message and changes nothing else.
C28_TokensRequired ==
  (ev.kind = "intake" /\ ev.pre.state.step \in {"INTAKE_POSITION", "INTAKE_TECH"}) =>
    LET position == ev.pre.state.step = "INTAKE_POSITION"
        field == IF position THEN candidate.desired_positions ELSE candidate.tech_stack
        guidance == IF position THEN APP_TEXT.GUIDE_POSITION ELSE APP_TEXT.GUIDE_TECH
        blank == \A i \in 1..Len(ev.prompt) : ev.prompt[i] \in {",", " "}
    IN  /\ ev.ret => Len(field) >= 1
        /\ blank =>
             /\ ~ev.ret
             /\ candidate = ev.pre.candidate
             /\ state = ev.pre.state
             /\ history[Len(history)] = [role |-> "assistant", content |-> guidance]

\* C29: within a session the step only moves forward in the order CONSENT,
\* INTAKE_NAME, ..., INTAKE_TECH, GENERATE_QA, TECHNICAL_QA, FOLLOWUP, END:
\* no message or click moves it to an earlier step, and after END every
\* message or click leaves the step at END and the candidate as it was.
C29_StepOnlyForward ==
  LET order == INTAKE_STEPS \o <<"GENERATE_QA", "TECHNICAL_QA", "FOLLOWUP", "END">>
      Rank(st) == CHOOSE i \in 0..Len(order) : IF i = 0 THEN st = "GREETING" ELSE order[i] = st
  IN  /\ state.step \in {order[i] : i \in 1..Len(order)}
      /\ ev.kind \in {"exit", "intake", "technical", "followup", "end", "save"} =>
           /\ Rank(ev.pre.state.step) <= Rank(state.step)
           /\ ev.pre.state.step = "END" =>
                /\ state.step = "END"
                /\ candidate = ev.pre.candidate

\* a message after the summary of a session that answered all K questions
C29_Witness ==
  /\ ev.kind = "end"
  /\ ev.pre.state.step = "END"
  /\ state.step = "END"
  /\ Len(candidate.answer_scores) = K
  /\ Len(history) > Len(ev.pre.history)

\* C30: while the step is CONSENT or an INTAKE_* step, after every message
\* the step is next_step(candidate, state) and the intake fields that are
\* set are a prefix of the fixed order, consent first; every accepted
\* intake input moves the step on by exactly one position.
C30_IntakeInStep ==
  LET Pos(st) == CHOOSE i \in 1..Len(INTAKE_STEPS) : INTAKE_STEPS[i] = st
      IsSet(i) ==
        CASE i = 1 -> candidate.consent_given
          [] i = 2 -> ~IsNone(candidate.full_name)
          [] i = 3 -> ~IsNone(candidate.email)
          [] i = 4 -> ~IsNone(candidate.phone)
          [] i = 5 -> ~IsNone(candidate.years_experience)
          [] i = 6 -> candidate.desired_positions # <<>>
          [] i = 7 -> ~IsNone(candidate.current_location)
          [] OTHER -> candidate.tech_stack # <<>>
  IN  /\ InIntakeSteps(state.step) =>
           /\ state.step = next_step(candidate, state).ret
           /\ \A i \in 1..Len(INTAKE_STEPS) : IsSet(i) <=> i < Pos(state.step)
      /\ (ev.kind = "intake" /\ ev.ret) =>
           IF ev.pre.state.step = "INTAKE_TECH" THEN ~InIntakeSteps(state.step)
           ELSE /\ InIntakeSteps(state.step)
                /\ Pos(state.step) = Pos(ev.pre.state.step) + 1

\* C31: whenever the step is TECHNICAL_QA the list of generated questions is
\* not empty, is the candidate's technical_questions, and the cursor is the
\* index of one of its questions; a message there without exit keyword and
\* with at least 10 characters after trimming is accepted, and its trimmed
\* text is stored under the id of the question that was at the cursor.
C31_QuestionAtCursor ==
  LET idx == ev.pre.state.current_question_index
      answers == candidate.technical_answers
  IN  /\ state.step = "TECHNICAL_QA" =>
           /\ Len(generated_questions) > 0
           /\ generated_questions = candidate.technical_questions
           /\ state.current_question_index \in 0..(Len(generated_questions) - 1)
      /\ (/\ ev.kind = "technical"
          /\ Len(strip(ev.prompt)) >= MinAnswerLen) =>
           /\ ev.ret
           /\ idx < Len(ev.pre.generated_questions)
           /\ \E i \in 1..Len(answers) :
                answers[i] = <<ev.pre.generated_questions[idx + 1].question_id, strip(ev.prompt)>>

\* the only question of a one-question list was answered
C31_Witness ==
  /\ ev.kind = "technical"
  /\ ev.ret
  /\ Len(generated_questions) = 1
  /\ ev.pre.state.current_question_index = 0
  /\ state.step = "FOLLOWUP"
  /\ Len(candidate.technical_answers) = 1

C33_EndBlockOnce ==
  Cardinality({i \in 1..Len(history) :
                 history[i] = [role |-> "assistant", content |-> APP_TEXT.THANK_YOU]}) <= 1

\* C34: a record is appended to the store only by a save click, and only
\* when the session's step is END or exit_detected is true: no message at
\* any step changes the store. A record that holds a personal field (a
\* name, email, phone, years, positions, location, technologies, an answer
\* or a comment) has consent_given true.
C34_SaveOnlyAtEnd ==
  [][store' # store =>
       LET r == store'[Len(store')]
           personal ==
             \/ \E f \in {"full_name", "email", "phone", "years_experience",
                          "current_location", "additional_comments"} : ~IsNone(r[f])
             \/ \E f \in {"desired_positions", "tech_stack", "technical_answers"} : Len(r[f]) > 0
       IN  /\ ev'.kind = "save"
           /\ clock' = clock + 1
           /\ (IF state.step = "END" THEN TRUE ELSE state.exit_detected)
           /\ store' = Append(store, r)
           /\ r = save_candidate(<<>>, candidate, clock)[1]
           /\ personal => r.consent_given]_vars

\* a candidate who left at the phone step was saved, name and email in the
\* record
C34_Witness ==
  /\ ev.kind = "save"
  /\ ev.ret
  /\ Len(store) = 1
  /\ ~IsNone(store[1].full_name)
  /\ ~IsNone(store[1].email)
  /\ IsNone(store[1].phone)
  /\ store[1].consent_given
  /\ state.step = "END"
====
